---- MODULE Spec2Model ----
(***************************************************************************)
(* Sensor-Logger: the concurrent pipeline                                  *)
(*   sensor producers -> bounded queues -> fusion (drain + merge)          *)
(*   -> fused_out -> recording controller (writer + flusher) -> CSV files. *)
(* Each goroutine is a process with a program counter; each action is one  *)
(* atomic step of the Go code (a select case, a critical section, a call   *)
(* of a CSVWriter method).                                                 *)
(***************************************************************************)
EXTENDS Integers, Sequences, FiniteSets, TLC

\* ------------------------------------------------------------------ bounds
\* Readings of the clock (producer captures + merge ticks) in a run of the
\* pipeline, and in a run that goes on to shutdown.
MaxTime == 4
MaxTimeStop == 2
\* Largest number of sensors enabled in a configuration, in the two kinds of run.
MaxEnabled == 2
MaxEnabledStop == 1
\* Largest configured channel_buffer explored.
MaxChanBuf == 1
\* Capacity of fused_out explored; stands for make(chan, 256).
FusedCap == 2
\* Readings of the clock in a run with a stalled recorder.
MaxTimeStall == 7
\* Largest sequence number of a sample in a FusedRecord given to writeRecord.
MaxRowId == 1
\* Readings of the clock in a run of one sensor with a slow recorder.
MaxTimeDrop == 6
\* Readings of the clock in a run of the camera alone that goes on to shutdown.
MaxTimeFan == 3
\* Largest interval (ms) given on the command line or in storage.yaml.
MaxIntervalMs == 3

\* time.Millisecond, in nanoseconds (the unit of time.Duration).
Millisecond == 1000000

\* ------------------------------------------------------------- vocabulary
Sensors == {"camera", "lidar", "gps", "imu", "radar"}

\* The order in which writeRecord, flushAll and Stop visit the writers.
WriterOrder == <<"fused", "camera", "lidar", "gps", "imu", "radar">>

Writers == {WriterOrder[i] : i \in 1..Len(WriterOrder)}

\* A nil pointer to a sensor record. A record carries its timestamp, its
\* sequence number, whether it holds raw bytes (a camera frame's JPEG) and
\* its file path (CameraFrame.FilePath), empty until a frame is saved.
Nil == [ts |-> -1, id |-> -1, jpeg |-> FALSE, path |-> ""]

NoCells == [s \in Sensors |-> Nil]

\* A nil *FusedRecord (the writer task holds none).
NoRec == [ts |-> -1, comp |-> NoCells]

\* A nil *CSVWriter, and a freshly created one.
NilWriter == [state |-> "nil", buf |-> <<>>, file |-> <<>>, rows |-> 0]

\* A row of a CSV: whether it is the header, its fields, and (for a data row)
\* the number in its timestamp_ns field.
HeaderRow(header) == [hdr |-> TRUE, ts |-> 0, fields |-> header]

DataRow(t, row) == [hdr |-> FALSE, ts |-> t, fields |-> row]

DataRows(rows) == SelectSeq(rows, LAMBDA r : ~r.hdr)

\* The session directory does not exist. Of a CSV file the model keeps
\* whether it is absent, left by an earlier session ("old") or created or
\* truncated by this one ("new").
NoDisk == [dir |-> FALSE, files |-> [w \in Writers |-> "absent"]]

\* ---------------------------------------------------------------- records
\* strconv.Itoa, FormatInt(v, 10), FormatUint(v, 10): the decimal numeral.
itoa(v) == ToString(v)

itoa64(v) == ToString(v)

utoa64(v) == ToString(v)

\* The text of a field whose value the model does not follow (a measurement
\* formatted by ftoa, a size, a configured width or model name): some text,
\* never empty, told apart by the name of the field.
Val(field) == "$" \o field

\* models.<S>.CSVHeader.
CameraCSVHeader ==
  <<"timestamp_ns", "frame_id", "width", "height", "format", "file_path", "size_bytes">>

LidarCSVHeader ==
  <<"timestamp_ns", "packet_id", "num_points", "model", "rotation_deg", "cloud_file_path",
    "size_bytes">>

GPSCSVHeader ==
  <<"timestamp_ns", "latitude", "longitude", "altitude", "speed", "heading", "hdop",
    "fix_quality", "num_sats">>

IMUCSVHeader ==
  <<"timestamp_ns", "accel_x", "accel_y", "accel_z", "gyro_x", "gyro_y", "gyro_z",
    "mag_x", "mag_y", "mag_z", "temperature">>

RadarCSVHeader ==
  <<"timestamp_ns", "target_id", "range", "azimuth", "elevation", "velocity", "rcs">>

\* FusedRecord.CSVHeader: the timestamp, then one block of columns a sensor.
FusedCSVHeader ==
  <<"timestamp_ns">>
    \o <<"cam_frame_id", "cam_file_path", "cam_width", "cam_height">>
    \o <<"lidar_packet_id", "lidar_num_points", "lidar_cloud_path">>
    \o <<"gps_lat", "gps_lon", "gps_alt", "gps_speed", "gps_heading">>
    \o <<"imu_ax", "imu_ay", "imu_az", "imu_gx", "imu_gy", "imu_gz">>
    \o <<"radar_range", "radar_azimuth", "radar_velocity">>

\* views.SchemaColumns: the reference column list of each record type.
SchemaColumns(w) ==
  CASE w = "camera" ->
         <<"timestamp_ns", "frame_id", "width", "height", "format", "file_path", "size_bytes">>
    [] w = "lidar" ->
         <<"timestamp_ns", "packet_id", "num_points", "model", "rotation_deg",
           "cloud_file_path", "size_bytes">>
    [] w = "gps" ->
         <<"timestamp_ns", "latitude", "longitude", "altitude", "speed", "heading", "hdop",
           "fix_quality", "num_sats">>
    [] w = "imu" ->
         <<"timestamp_ns", "accel_x", "accel_y", "accel_z", "gyro_x", "gyro_y", "gyro_z",
           "mag_x", "mag_y", "mag_z", "temperature">>
    [] w = "radar" ->
         <<"timestamp_ns", "target_id", "range", "azimuth", "elevation", "velocity", "rcs">>
    [] w = "fused" ->
         <<"timestamp_ns",
           "cam_frame_id", "cam_file_path", "cam_width", "cam_height",
           "lidar_packet_id", "lidar_num_points", "lidar_cloud_path",
           "gps_lat", "gps_lon", "gps_alt", "gps_speed", "gps_heading",
           "imu_ax", "imu_ay", "imu_az", "imu_gx", "imu_gy", "imu_gz",
           "radar_range", "radar_azimuth", "radar_velocity">>

\* Mutant: the radar header lacks the elevation column.
CSVHeaderRadarShort(w) ==
  CASE w = "fused" -> FusedCSVHeader
    [] w = "camera" -> CameraCSVHeader
    [] w = "lidar" -> LidarCSVHeader
    [] w = "gps" -> GPSCSVHeader
    [] w = "imu" -> IMUCSVHeader
    [] w = "radar" -> <<"timestamp_ns", "target_id", "range", "azimuth", "velocity", "rcs">>

\* The header NewRecordingController passes to NewCSVWriter for each file.
CSVHeader(w) ==
  CASE w = "fused" -> FusedCSVHeader
    [] w = "camera" -> CameraCSVHeader
    [] w = "lidar" -> LidarCSVHeader
    [] w = "gps" -> GPSCSVHeader
    [] w = "imu" -> IMUCSVHeader
    [] w = "radar" -> RadarCSVHeader

\* models.<S>.CSVRow of a non-nil record f.
CameraCSVRow(f) ==
  <<itoa64(f.ts), utoa64(f.id), Val("width"), Val("height"), Val("format"), f.path,
    Val("size_bytes")>>

LidarCSVRow(f) ==
  <<itoa64(f.ts), utoa64(f.id), Val("num_points"), Val("model"), Val("rotation_deg"), "",
    Val("size_bytes")>>

GPSCSVRow(f) ==
  <<itoa64(f.ts), Val("latitude"), Val("longitude"), Val("altitude"), Val("speed"),
    Val("heading"), Val("hdop"), Val("fix_quality"), Val("num_sats")>>

IMUCSVRow(f) ==
  <<itoa64(f.ts), Val("accel_x"), Val("accel_y"), Val("accel_z"), Val("gyro_x"),
    Val("gyro_y"), Val("gyro_z"), Val("mag_x"), Val("mag_y"), Val("mag_z"),
    Val("temperature")>>

RadarCSVRow(f) ==
  <<itoa64(f.ts), itoa(f.id), Val("range"), Val("azimuth"), Val("elevation"),
    Val("velocity"), Val("rcs")>>

CSVRow(s, f) ==
  CASE s = "camera" -> CameraCSVRow(f)
    [] s = "lidar" -> LidarCSVRow(f)
    [] s = "gps" -> GPSCSVRow(f)
    [] s = "imu" -> IMUCSVRow(f)
    [] s = "radar" -> RadarCSVRow(f)

\* Mutant: nothing is appended for a nil camera component.
FusedCSVRowSkipsNil(r) ==
  <<itoa64(r.ts)>>
    \o (IF r.comp["camera"] # Nil
          THEN <<utoa64(r.comp["camera"].id), r.comp["camera"].path, Val("width"),
                 Val("height")>>
          ELSE <<>>)
    \o (IF r.comp["lidar"] # Nil
          THEN <<utoa64(r.comp["lidar"].id), Val("num_points"), "">>
          ELSE <<"", "", "">>)
    \o (IF r.comp["gps"] # Nil
          THEN <<Val("latitude"), Val("longitude"), Val("altitude"), Val("speed"),
                 Val("heading")>>
          ELSE <<"", "", "", "", "">>)
    \o (IF r.comp["imu"] # Nil
          THEN <<Val("accel_x"), Val("accel_y"), Val("accel_z"), Val("gyro_x"),
                 Val("gyro_y"), Val("gyro_z")>>
          ELSE <<"", "", "", "", "", "">>)
    \o (IF r.comp["radar"] # Nil
          THEN <<Val("range"), Val("azimuth"), Val("velocity")>>
          ELSE <<"", "", "">>)

\* FusedRecord.CSVRow: the timestamp, then for each sensor its fields, or as
\* many empty strings when the component is nil.
FusedCSVRow(r) ==
  <<itoa64(r.ts)>>
    \o (IF r.comp["camera"] # Nil
          THEN <<utoa64(r.comp["camera"].id), r.comp["camera"].path, Val("width"),
                 Val("height")>>
          ELSE <<"", "", "", "">>)
    \o (IF r.comp["lidar"] # Nil
          THEN <<utoa64(r.comp["lidar"].id), Val("num_points"), "">>
          ELSE <<"", "", "">>)
    \o (IF r.comp["gps"] # Nil
          THEN <<Val("latitude"), Val("longitude"), Val("altitude"), Val("speed"),
                 Val("heading")>>
          ELSE <<"", "", "", "", "">>)
    \o (IF r.comp["imu"] # Nil
          THEN <<Val("accel_x"), Val("accel_y"), Val("accel_z"), Val("gyro_x"),
                 Val("gyro_y"), Val("gyro_z")>>
          ELSE <<"", "", "", "", "", "">>)
    \o (IF r.comp["radar"] # Nil
          THEN <<Val("range"), Val("azimuth"), Val("velocity")>>
          ELSE <<"", "", "">>)

VARIABLES
  enabled,        \* cfg.Sensors.<S>.Enabled, as the set of enabled sensors
  channelBuffer,  \* cfg.Sensors.<S>.ChannelBuffer (one value for all sensors)
  writeHeader,    \* storage.csv.write_header
  pcMain,         \* position of main
  cancelled,      \* ctx.Done() is closed
  now,            \* last reading of the wall clock
  timeLimit,      \* the run is explored up to this reading of the clock
  chanOpen,       \* SensorsController.<S>Ch is non-nil
  ppc,            \* position of each producer goroutine
  frame,          \* the record a producer built and is about to send
  seq,            \* records built so far by each producer (seq / id)
  produced,       \* <S>Reader.produced
  dropped,        \* <S>Reader.dropped
  queue,          \* contents of <S>Reader.Out
  closed,         \* <S>Reader.Out has been closed
  dpc,            \* position of each drain goroutine
  dval,           \* the record a drain received and is about to store
  latest,         \* FusionController.latest<S>
  mu,             \* FusionController.mu: "free" or its holder
  mpc,            \* position of the merge goroutine
  rec,            \* the FusedRecord the merge goroutine is holding
  fusedOut,       \* contents of FusionController.Out
  fusedClosed,    \* FusionController.Out has been closed
  storedSince,    \* history: last record stored in each cell since the last merge read
  assembled,      \* history: every FusedRecord assembled, in order
  emitted,        \* history: every FusedRecord enqueued on fused_out, in order
  writers,        \* the six *CSVWriter of the RecordingController
  rowsWritten,    \* RecordingController.rowsWritten
  wpc,            \* position of the writer goroutine
  wstage,         \* index in WriterOrder of the next write of writeRecord
  wrec,           \* the FusedRecord the writer goroutine is writing
  taken,          \* history: FusedRecords the writer goroutine received
  fpc,            \* position of the flusher goroutine
  fidx,           \* index in WriterOrder of the next Flush of flushAll
  ffinal,         \* the running flushAll is the one after ctx.Done()
  stopFlushed,    \* history: rows still buffered when Stop began its flushAll
  overwrite,      \* storage.overwrite
  disk,           \* the session directory and its CSV files on disk
  disk0,          \* history: disk when NewRecordingController was called
  nidx,           \* index in WriterOrder of the next writer NewRecordingController opens
  err,            \* the error NewRecordingController returned ("none" if none)
  sent,           \* history: the records each producer enqueued, in order
  stored,         \* history: the records each drain stored in its cell, in order
  simulate,       \* simulation.enabled: the readers generate their records
  saveFrames,     \* sensors.camera.save_frames
  savePath,       \* storage.frames.save_path
  frameWrites,    \* history: the paths of the frame-write goroutines launched
  alignMs,        \* the -align-ms flag, as main passes it to NewFusionController
  flushIntervalMs,\* storage.csv.flush_interval_ms
  mergePeriod,    \* period of the merge goroutine's ticker, ns (0: not created)
  flushPeriod,    \* period of the flusher goroutine's ticker, ns (0: not created)
  rate,           \* the configured rate of the readers: fps, update_rate_hz, rpm
  prodPeriod,     \* period of each reader's ticker, ns (0: not created)
  csvw,           \* one CSVWriter seen at the grain of its mutex: mu, buf, file, rows
  call,           \* the call each task has in progress on that CSVWriter
  completed,      \* history: the WriteRow calls on it that have returned
  framesDone,     \* the frame-write goroutines that have finished, by path
  pointsPerPkt,   \* sensors.lidar.points_per_packet
  lidarPkt,       \* NumPoints and SizeBytes of the last LidarPacket built
  globalLogger,   \* utils.globalLogger: the Logger it points to (NilLogger: nil)
  logOnce,        \* utils.logOnce: its function has been run
  created,        \* history: the number of Loggers created
  logCall,        \* history: the last call made on the utils logger
  logRet          \* history: the Logger that call returned, by identity (0: none)

\* What is fixed once main has entered its event loop: the configuration and
\* what bring-up left behind.
bootVars == <<overwrite, disk, disk0, nidx, err>>

\* The configured intervals and the tickers made from them.
tickVars == <<alignMs, flushIntervalMs, mergePeriod, flushPeriod, rate, prodPeriod>>

\* The logger of package utils.
logVars == <<globalLogger, logOnce, created, logCall, logRet>>

\* The lidar reader's packets.
lidarVars == <<pointsPerPkt, lidarPkt>>

\* One CSVWriter and the calls in progress on it.
csvVars == <<csvw, call, completed>>

cfgVars == <<enabled, channelBuffer, writeHeader, simulate, saveFrames, savePath, bootVars,
             tickVars, csvVars, framesDone, lidarVars, logVars>>
mainVars == <<pcMain, cancelled, chanOpen>>
prodVars == <<ppc, frame, seq, produced, dropped, queue, closed, sent>>
drainVars == <<dpc, dval, stored>>
fusionVars == <<latest, mu, mpc, rec, fusedOut, fusedClosed, storedSince, assembled,
               emitted>>
recVars == <<writers, rowsWritten, wpc, wstage, wrec, taken, frameWrites, fpc, fidx,
            ffinal, stopFlushed>>

vars == <<cfgVars, mainVars, now, timeLimit, prodVars, drainVars, fusionVars, recVars>>

\* ------------------------------------------------------------- the clock
\* utils.NowNano: a reading of the nanosecond wall clock. Successive
\* readings are distinct and increasing (the clock is not stepped back
\* while a session runs).
NowNano == now + 1

\* ----------------------------------------------------------- construction
\* New<S>Reader: the capacity of the output channel.
DefaultBuffer(s) ==
  CASE s = "camera" -> 120
    [] s = "lidar" -> 256
    [] s = "gps" -> 64
    [] s = "imu" -> 512
    [] s = "radar" -> 128

\* Mutant: only a negative channel_buffer is replaced by the default.
ChanCapZeroKept(s) == IF channelBuffer < 0 THEN DefaultBuffer(s) ELSE channelBuffer

ChanCap(s) == IF channelBuffer <= 0 THEN DefaultBuffer(s) ELSE channelBuffer

\* Mutant: only a negative interval is replaced by the default.
AlignIntervalMsZeroKept(ms) == IF ms < 0 THEN 33 ELSE ms

\* NewFusionController: fc.alignIntervalMs for a given alignMs.
AlignIntervalMs(ms) == IF ms <= 0 THEN 33 ELSE ms

\* RecordingController.Start, flusher goroutine: flushMs.
FlushMs(ms) == IF ms <= 0 THEN 100 ELSE ms

\* time.Duration(ms) * time.Millisecond.
Duration(ms) == ms * Millisecond

\* The process is running: main has not returned and has not called Fatal.
Alive == pcMain \notin {"finished", "fatal"}

\* time.Second, in nanoseconds.
Second == 1000000000

\* Go's integer quotient a / b for a >= 0 and b # 0: truncated toward zero.
Quo(a, b) == IF b < 0 THEN -(a \div (-b)) ELSE a \div b

\* <S>Reader.run: the interval computed from the configured rate r, as the
\* set of results the statement can have. ok is FALSE when the statement
\* itself panics (integer division by zero). The lidar interval is computed
\* in float64, float64(time.Second) / (rpm / 60 * 75); for rpm = 0 that is
\* +Inf, whose conversion to time.Duration is implementation-dependent: the
\* least int64 on amd64, the greatest on arm64 (written here as the extreme
\* values of the model's integers). The radar interval is fixed.
ReaderInterval(s, r) ==
  CASE s \in {"camera", "gps", "imu"} ->
         IF r = 0 THEN {[ok |-> FALSE, d |-> 0]} ELSE {[ok |-> TRUE, d |-> Quo(Second, r)]}
    [] s = "lidar" ->
         IF r = 0 THEN {[ok |-> TRUE, d |-> -2147483647], [ok |-> TRUE, d |-> 2147483647]}
                  ELSE {[ok |-> TRUE, d |-> Quo((Second \div 5) * 4, r)]}
    [] s = "radar" -> {[ok |-> TRUE, d |-> Duration(50)]}

\* The rate of the sample configuration, and the ticker periods it gives.
DefaultRate == 30
DefaultPeriods(ch) ==
  [s \in Sensors |-> IF ch[s] THEN (CHOOSE q \in ReaderInterval(s, DefaultRate) : TRUE).d
                               ELSE 0]

\* -------------------------------------------------------------- producers
\* Mutant: the sequence number is incremented before the record is built.
ProducerTickIncrementsFirst(s) ==
  /\ Alive
  /\ ppc[s] = "tick"
  /\ now < timeLimit
  /\ now' = NowNano
  /\ frame' = [frame EXCEPT ![s] = [ts |-> NowNano, id |-> seq[s] + 1,
                                     jpeg |-> (s = "camera" /\ simulate), path |-> ""]]
  /\ seq' = [seq EXCEPT ![s] = @ + 1]
  /\ ppc' = [ppc EXCEPT ![s] = "send"]
  /\ UNCHANGED <<timeLimit, cfgVars, mainVars, produced, dropped, queue, closed, sent,
                 drainVars, fusionVars, recVars>>

\* <S>Reader.run, case <-ticker.C, first half: build one record.
ProducerTick(s) ==
  /\ Alive
  /\ ppc[s] = "tick"
  /\ now < timeLimit
  /\ now' = NowNano
  /\ frame' = [frame EXCEPT ![s] = [ts |-> NowNano, id |-> seq[s],
                                     jpeg |-> (s = "camera" /\ simulate), path |-> ""]]
  /\ seq' = [seq EXCEPT ![s] = @ + 1]
  /\ ppc' = [ppc EXCEPT ![s] = "send"]
  /\ UNCHANGED <<timeLimit, cfgVars, mainVars, produced, dropped, queue, closed, sent,
                 drainVars, fusionVars, recVars>>

\* Mutant: a plain (blocking) send r.Out <- frame.
ProducerSendBlocking(s) ==
  /\ Alive
  /\ ppc[s] = "send"
  /\ Len(queue[s]) < ChanCap(s)
  /\ queue' = [queue EXCEPT ![s] = Append(@, frame[s])]
  /\ sent' = [sent EXCEPT ![s] = Append(@, frame[s])]
  /\ produced' = [produced EXCEPT ![s] = @ + 1]
  /\ frame' = [frame EXCEPT ![s] = Nil]
  /\ ppc' = [ppc EXCEPT ![s] = "tick"]
  /\ UNCHANGED <<timeLimit, cfgVars, mainVars, now, seq, dropped, closed, drainVars,
                 fusionVars, recVars>>

\* Mutant: the producer also discards its record when fused_out is full.
ProducerSendBackPressure(s) ==
  /\ Alive
  /\ ppc[s] = "send"
  /\ IF Len(queue[s]) < ChanCap(s) /\ Len(fusedOut) < FusedCap
       THEN /\ queue' = [queue EXCEPT ![s] = Append(@, frame[s])]
            /\ sent' = [sent EXCEPT ![s] = Append(@, frame[s])]
            /\ produced' = [produced EXCEPT ![s] = @ + 1]
            /\ UNCHANGED dropped
       ELSE /\ dropped' = [dropped EXCEPT ![s] = @ + 1]
            /\ UNCHANGED <<queue, sent, produced>>
  /\ frame' = [frame EXCEPT ![s] = Nil]
  /\ ppc' = [ppc EXCEPT ![s] = "tick"]
  /\ UNCHANGED <<timeLimit, cfgVars, mainVars, now, seq, closed, drainVars, fusionVars, recVars>>

\* Mutant: a record discarded on a full queue is not counted.
ProducerSendUncountedDrop(s) ==
  /\ Alive
  /\ ppc[s] = "send"
  /\ IF Len(queue[s]) < ChanCap(s)
       THEN /\ queue' = [queue EXCEPT ![s] = Append(@, frame[s])]
            /\ sent' = [sent EXCEPT ![s] = Append(@, frame[s])]
            /\ produced' = [produced EXCEPT ![s] = @ + 1]
       ELSE UNCHANGED <<queue, sent, produced>>
  /\ frame' = [frame EXCEPT ![s] = Nil]
  /\ ppc' = [ppc EXCEPT ![s] = "tick"]
  /\ UNCHANGED <<timeLimit, cfgVars, mainVars, now, seq, dropped, closed, drainVars,
                 fusionVars, recVars>>

\* <S>Reader.run, second half: the non-blocking send (select with default).
ProducerSend(s) ==
  /\ Alive
  /\ ppc[s] = "send"
  /\ IF Len(queue[s]) < ChanCap(s)
       THEN /\ queue' = [queue EXCEPT ![s] = Append(@, frame[s])]
            /\ sent' = [sent EXCEPT ![s] = Append(@, frame[s])]
            /\ produced' = [produced EXCEPT ![s] = @ + 1]
            /\ UNCHANGED dropped
       ELSE /\ dropped' = [dropped EXCEPT ![s] = @ + 1]
            /\ UNCHANGED <<queue, sent, produced>>
  /\ frame' = [frame EXCEPT ![s] = Nil]
  /\ ppc' = [ppc EXCEPT ![s] = "tick"]
  /\ UNCHANGED <<timeLimit, cfgVars, mainVars, now, seq, closed, drainVars, fusionVars, recVars>>

\* <S>Reader.run, case <-ctx.Done(): return, and the deferred close(r.Out).
ProducerExit(s) ==
  /\ Alive
  /\ ppc[s] = "tick"
  /\ cancelled
  /\ closed' = [closed EXCEPT ![s] = TRUE]
  /\ ppc' = [ppc EXCEPT ![s] = "done"]
  /\ UNCHANGED <<timeLimit, cfgVars, mainVars, now, frame, seq, produced, dropped, queue,
                 sent, drainVars, fusionVars, recVars>>

\* ----------------------------------------------------------------- drains
\* Mutant: the drain takes the newest record of the queue.
DrainRecvNewest(s) ==
  /\ Alive
  /\ dpc[s] = "recv"
  /\ Len(queue[s]) > 0
  /\ dval' = [dval EXCEPT ![s] = queue[s][Len(queue[s])]]
  /\ queue' = [queue EXCEPT ![s] = SubSeq(@, 1, Len(@) - 1)]
  /\ dpc' = [dpc EXCEPT ![s] = "store"]
  /\ UNCHANGED <<timeLimit, cfgVars, mainVars, now, ppc, frame, seq, produced, dropped, closed,
                 sent, stored, fusionVars, recVars>>

\* drain<S>, case f, ok := <-ch with ok true.
DrainRecv(s) ==
  /\ Alive
  /\ dpc[s] = "recv"
  /\ Len(queue[s]) > 0
  /\ dval' = [dval EXCEPT ![s] = Head(queue[s])]
  /\ queue' = [queue EXCEPT ![s] = Tail(@)]
  /\ dpc' = [dpc EXCEPT ![s] = "store"]
  /\ UNCHANGED <<timeLimit, cfgVars, mainVars, now, ppc, frame, seq, produced, dropped, closed,
                 sent, stored, fusionVars, recVars>>

\* Mutant: a drain that returns closes the queue it was reading.
DrainExitClosesQueue(s) ==
  /\ Alive
  /\ dpc[s] = "recv"
  /\ \/ cancelled
     \/ closed[s] /\ Len(queue[s]) = 0
  /\ dpc' = [dpc EXCEPT ![s] = "done"]
  /\ closed' = [closed EXCEPT ![s] = TRUE]
  /\ UNCHANGED <<timeLimit, cfgVars, mainVars, now, ppc, frame, seq, produced, dropped,
                 queue, sent, dval, stored, fusionVars, recVars>>

\* drain<S>, case <-ch with ok false (closed and empty), or case <-ctx.Done().
DrainExit(s) ==
  /\ Alive
  /\ dpc[s] = "recv"
  /\ \/ cancelled
     \/ closed[s] /\ Len(queue[s]) = 0
  /\ dpc' = [dpc EXCEPT ![s] = "done"]
  /\ UNCHANGED <<timeLimit, cfgVars, mainVars, now, prodVars, dval, stored, fusionVars,
                 recVars>>

\* Mutant: the drain fills an empty cell only (first-wins).
DrainStoreKeepsFirst(s) ==
  /\ Alive
  /\ dpc[s] = "store"
  /\ mu = "free"
  /\ latest' = [latest EXCEPT ![s] = IF @ = Nil THEN dval[s] ELSE @]
  /\ storedSince' = [storedSince EXCEPT ![s] = dval[s]]
  /\ stored' = [stored EXCEPT ![s] = Append(@, dval[s])]
  /\ dval' = [dval EXCEPT ![s] = Nil]
  /\ dpc' = [dpc EXCEPT ![s] = "recv"]
  /\ UNCHANGED <<timeLimit, cfgVars, mainVars, now, prodVars, mu, mpc, rec, fusedOut,
                 fusedClosed, assembled, emitted, recVars>>

\* Mutant: the drain's store also empties the other four cells.
DrainStoreClearsOthers(s) ==
  /\ Alive
  /\ dpc[s] = "store"
  /\ mu = "free"
  /\ latest' = [o \in Sensors |-> IF o = s THEN dval[s] ELSE Nil]
  /\ storedSince' = [storedSince EXCEPT ![s] = dval[s]]
  /\ stored' = [stored EXCEPT ![s] = Append(@, dval[s])]
  /\ dval' = [dval EXCEPT ![s] = Nil]
  /\ dpc' = [dpc EXCEPT ![s] = "recv"]
  /\ UNCHANGED <<timeLimit, cfgVars, mainVars, now, prodVars, mu, mpc, rec, fusedOut,
                 fusedClosed, assembled, emitted, recVars>>

\* Mutant: the drain stores into the cell without taking fc.mu.
DrainStoreNoLock(s) ==
  /\ Alive
  /\ dpc[s] = "store"
  /\ latest' = [latest EXCEPT ![s] = dval[s]]
  /\ storedSince' = [storedSince EXCEPT ![s] = dval[s]]
  /\ stored' = [stored EXCEPT ![s] = Append(@, dval[s])]
  /\ dval' = [dval EXCEPT ![s] = Nil]
  /\ dpc' = [dpc EXCEPT ![s] = "recv"]
  /\ UNCHANGED <<timeLimit, cfgVars, mainVars, now, prodVars, mu, mpc, rec, fusedOut,
                 fusedClosed, assembled, emitted, recVars>>

\* drain<S>: fc.mu.Lock(); fc.latest<S> = f; fc.mu.Unlock().
DrainStore(s) ==
  /\ Alive
  /\ dpc[s] = "store"
  /\ mu = "free"
  /\ latest' = [latest EXCEPT ![s] = dval[s]]
  /\ storedSince' = [storedSince EXCEPT ![s] = dval[s]]
  /\ stored' = [stored EXCEPT ![s] = Append(@, dval[s])]
  /\ dval' = [dval EXCEPT ![s] = Nil]
  /\ dpc' = [dpc EXCEPT ![s] = "recv"]
  /\ UNCHANGED <<timeLimit, cfgVars, mainVars, now, prodVars, mu, mpc, rec, fusedOut,
                 fusedClosed, assembled, emitted, recVars>>

\* ------------------------------------------------------------------ merge
\* Mutant: the timestamp is read once, before the loop.
MergeTickHoistedClock ==
  /\ Alive
  /\ mpc = "tick"
  /\ mu = "free"
  /\ now < timeLimit
  /\ now' = NowNano
  /\ mu' = "merge"
  /\ LET t == IF assembled = <<>> THEN NowNano ELSE assembled[1].ts
     IN /\ rec' = [ts |-> t, comp |-> latest]
        /\ assembled' = Append(assembled, [ts |-> t, comp |-> latest, since |-> storedSince])
  /\ storedSince' = NoCells
  /\ mpc' = "clear"
  /\ UNCHANGED <<timeLimit, cfgVars, mainVars, prodVars, drainVars, latest, fusedOut,
                 fusedClosed, emitted, recVars>>

\* merge, case <-ticker.C: fc.mu.Lock() and the construction of rec.
MergeTick ==
  /\ Alive
  /\ mpc = "tick"
  /\ mu = "free"
  /\ now < timeLimit
  /\ now' = NowNano
  /\ mu' = "merge"
  /\ rec' = [ts |-> NowNano, comp |-> latest]
  /\ assembled' = Append(assembled, [ts |-> NowNano, comp |-> latest, since |-> storedSince])
  /\ storedSince' = NoCells
  /\ mpc' = "clear"
  /\ UNCHANGED <<timeLimit, cfgVars, mainVars, prodVars, drainVars, latest, fusedOut,
                 fusedClosed, emitted, recVars>>

\* Mutant: the cells are not cleared.
MergeClearNone ==
  /\ Alive
  /\ mpc = "clear"
  /\ latest' = latest
  /\ mu' = "free"
  /\ mpc' = "send"
  /\ UNCHANGED <<timeLimit, cfgVars, mainVars, now, prodVars, drainVars, rec, fusedOut,
                 fusedClosed, storedSince, assembled, emitted, recVars>>

\* Mutant: one of the five assignments is missing (latestCamera is kept).
MergeClearForgetsCamera ==
  /\ Alive
  /\ mpc = "clear"
  /\ latest' = [NoCells EXCEPT !["camera"] = latest["camera"]]
  /\ mu' = "free"
  /\ mpc' = "send"
  /\ UNCHANGED <<timeLimit, cfgVars, mainVars, now, prodVars, drainVars, rec, fusedOut,
                 fusedClosed, storedSince, assembled, emitted, recVars>>

\* Mutant: the cells are kept when fc.Out has no room for the record.
MergeClearKeepsOnFull ==
  /\ Alive
  /\ mpc = "clear"
  /\ latest' = IF Len(fusedOut) < FusedCap THEN NoCells ELSE latest
  /\ mu' = "free"
  /\ mpc' = "send"
  /\ UNCHANGED <<timeLimit, cfgVars, mainVars, now, prodVars, drainVars, rec, fusedOut,
                 fusedClosed, storedSince, assembled, emitted, recVars>>

\* merge: the five assignments of nil, and fc.mu.Unlock().
MergeClear ==
  /\ Alive
  /\ mpc = "clear"
  /\ latest' = NoCells
  /\ mu' = "free"
  /\ mpc' = "send"
  /\ UNCHANGED <<timeLimit, cfgVars, mainVars, now, prodVars, drainVars, rec, fusedOut,
                 fusedClosed, storedSince, assembled, emitted, recVars>>

\* Mutant: a plain (blocking) send fc.Out <- rec.
MergeSendBlocking ==
  /\ Alive
  /\ mpc = "send"
  /\ Len(fusedOut) < FusedCap
  /\ fusedOut' = Append(fusedOut, rec)
  /\ emitted' = Append(emitted, rec)
  /\ rec' = NoRec
  /\ mpc' = "tick"
  /\ UNCHANGED <<timeLimit, cfgVars, mainVars, now, prodVars, drainVars, latest, mu,
                 fusedClosed, storedSince, assembled, recVars>>

\* Mutant: a record without any component is not offered to fc.Out.
MergeSendSkipsEmpty ==
  /\ Alive
  /\ mpc = "send"
  /\ IF Len(fusedOut) < FusedCap /\ rec.comp # NoCells
       THEN /\ fusedOut' = Append(fusedOut, rec)
            /\ emitted' = Append(emitted, rec)
       ELSE UNCHANGED <<fusedOut, emitted>>
  /\ rec' = NoRec
  /\ mpc' = "tick"
  /\ UNCHANGED <<timeLimit, cfgVars, mainVars, now, prodVars, drainVars, latest, mu,
                 fusedClosed, storedSince, assembled, recVars>>

\* merge: the non-blocking send of rec on fc.Out.
MergeSend ==
  /\ Alive
  /\ mpc = "send"
  /\ IF Len(fusedOut) < FusedCap
       THEN /\ fusedOut' = Append(fusedOut, rec)
            /\ emitted' = Append(emitted, rec)
       ELSE UNCHANGED <<fusedOut, emitted>>
  /\ rec' = NoRec
  /\ mpc' = "tick"
  /\ UNCHANGED <<timeLimit, cfgVars, mainVars, now, prodVars, drainVars, latest, mu,
                 fusedClosed, storedSince, assembled, recVars>>

\* merge, case <-ctx.Done(): return, and the deferred close(fc.Out).
MergeExit ==
  /\ Alive
  /\ mpc = "tick"
  /\ cancelled
  /\ fusedClosed' = TRUE
  /\ mpc' = "done"
  /\ UNCHANGED <<timeLimit, cfgVars, mainVars, now, prodVars, drainVars, latest, mu, rec,
                 fusedOut, storedSince, assembled, emitted, recVars>>

\* -------------------------------------------------------------- CSVWriter
\* views.NewCSVWriter: the header is written to the buffer, not to the file.
NewCSVWriter(writeHdr, header) ==
  [state |-> "open",
   buf |-> IF writeHdr /\ Len(header) > 0 THEN <<HeaderRow(header)>> ELSE <<>>,
   file |-> <<>>, rows |-> 0]

\* CSVWriter.WriteRow: encode the row into the buffer and count it.
WriteRow(w, row) == [w EXCEPT !.buf = Append(@, row), !.rows = @ + 1]

\* Mutant: the buffer is written out but not emptied.
FlushKeepsBuffer(w) ==
  IF w.state = "open" THEN [w EXCEPT !.file = @ \o w.buf] ELSE w

\* CSVWriter.Flush: push the buffer to the file; on a closed file the write
\* fails and the rows stay in the buffer.
Flush(w) ==
  IF w.state = "open" THEN [w EXCEPT !.file = @ \o w.buf, !.buf = <<>>] ELSE w

\* CSVWriter.Close: Flush, then close the file.
Close(w) == [Flush(w) EXCEPT !.state = "closed"]

\* CSVWriter.Rows.
Rows(w) == w.rows

Index(w) == CHOOSE i \in 1..Len(WriterOrder) : WriterOrder[i] = w

AfterLast == Len(WriterOrder) + 1

\* ------------------------------------------------------------------- main
\* Mutant: a reader is created for every sensor, enabled or not.
NewSensorsControllerAll(en) == [s \in Sensors |-> TRUE]

\* NewSensorsController: SensorsController.<S>Ch is non-nil exactly for the
\* sensors whose Enabled flag is set.
NewSensorsController(en) == [s \in Sensors |-> s \in en]

\* SensorsController.Start: go r.run(ctx) for every non-nil reader.
SensorsStart(ch) == [s \in Sensors |-> IF ch[s] THEN "tick" ELSE "off"]

\* FusionController.Start: go fc.drain<S>(ctx, ch) for every non-nil channel.
FusionStart(ch) == [s \in Sensors |-> IF ch[s] THEN "recv" ELSE "off"]

\* NewRecordingController without a failure: fused.csv, then one file per
\* enabled sensor; the writers of the other sensors stay nil.
NewRecordingController(en, hdr) ==
  [w \in Writers |->
     IF w = "fused" \/ w \in en THEN NewCSVWriter(hdr, CSVHeader(w)) ELSE NilWriter]

\* main's event loop: a signal arrives and main calls cancel(), or the
\* deadline of context.WithTimeout has passed; either way ctx is done.
MainShutdown ==
  /\ pcMain = "running"
  /\ cancelled' = TRUE
  /\ pcMain' = "shutdown"
  /\ UNCHANGED <<timeLimit, cfgVars, chanOpen, now, prodVars, drainVars, fusionVars, recVars>>

\* Mutant: Stop closes the files without flushing the writers.
MainStopCloseOnly ==
  /\ pcMain = "shutdown"
  /\ wpc = "done"
  /\ fpc = "done"
  /\ writers' = [w \in Writers |->
                   IF writers[w].state = "nil" THEN writers[w]
                   ELSE [writers[w] EXCEPT !.state = "closed"]]
  /\ stopFlushed' = 0
  /\ pcMain' = "stopped"
  /\ UNCHANGED <<timeLimit, cfgVars, cancelled, chanOpen, now, prodVars, drainVars, fusionVars,
                 rowsWritten, wpc, wstage, wrec, taken, frameWrites, fpc, fidx, ffinal>>

\* Rows in the buffers of all writers.
RECURSIVE BufferedFrom(_)
BufferedFrom(i) ==
  IF i > Len(WriterOrder) THEN 0
  ELSE Len(writers[WriterOrder[i]].buf) + BufferedFrom(i + 1)

Buffered == BufferedFrom(1)

\* Mutant: Stop does not wait for the writer and the flusher goroutines.
MainStopNoWait ==
  /\ pcMain = "shutdown"
  /\ writers' = [w \in Writers |->
                   IF writers[w].state = "nil" THEN writers[w]
                   ELSE Close(Flush(writers[w]))]
  /\ stopFlushed' = Buffered
  /\ pcMain' = "stopped"
  /\ UNCHANGED <<timeLimit, cfgVars, cancelled, chanOpen, now, prodVars, drainVars, fusionVars,
                 rowsWritten, wpc, wstage, wrec, taken, frameWrites, fpc, fidx, ffinal>>

\* RecordingController.Stop: wg.Wait(), flushAll(), Close of every
\* non-nil writer.
MainStop ==
  /\ pcMain = "shutdown"
  /\ wpc = "done"
  /\ fpc = "done"
  /\ writers' = [w \in Writers |->
                   IF writers[w].state = "nil" THEN writers[w]
                   ELSE Close(Flush(writers[w]))]
  /\ stopFlushed' = Buffered
  /\ pcMain' = "stopped"
  /\ UNCHANGED <<timeLimit, cfgVars, cancelled, chanOpen, now, prodVars, drainVars, fusionVars,
                 rowsWritten, wpc, wstage, wrec, taken, frameWrites, fpc, fidx, ffinal>>

\* main returns: the process ends.
MainExit ==
  /\ pcMain = "stopped"
  /\ pcMain' = "finished"
  /\ UNCHANGED <<timeLimit, cfgVars, cancelled, chanOpen, now, prodVars, drainVars, fusionVars, recVars>>

\* ---------------------------------------------------- recorder: the writer
\* Mutant: a row goes to every open sensor CSV, whatever the component.
WritesAtEveryWriter(r, i) ==
  \/ i = 1
  \/ /\ i \in 2..Len(WriterOrder)
     /\ writers[WriterOrder[i]].state # "nil"

\* writeRecord writes at position i of WriterOrder: always to fused.csv, to
\* <sensor>.csv when the component and the writer are both non-nil.
WritesAt(r, i) ==
  \/ i = 1
  \/ /\ i \in 2..Len(WriterOrder)
     /\ r.comp[WriterOrder[i]] # Nil
     /\ writers[WriterOrder[i]].state # "nil"

NextStage(r, i) ==
  IF \E j \in i..Len(WriterOrder) : WritesAt(r, j)
    THEN CHOOSE j \in i..Len(WriterOrder) :
           WritesAt(r, j) /\ \A k \in i..(j - 1) : ~WritesAt(r, k)
    ELSE AfterLast

\* Mutant: the writer takes the newest record of the queue.
WriterRecvNewest ==
  /\ Alive
  /\ wpc = "recv"
  /\ Len(fusedOut) > 0
  /\ wrec' = fusedOut[Len(fusedOut)]
  /\ fusedOut' = SubSeq(fusedOut, 1, Len(fusedOut) - 1)
  /\ taken' = taken + 1
  /\ wstage' = 1
  /\ wpc' = "write"
  /\ UNCHANGED <<timeLimit, cfgVars, mainVars, now, prodVars, drainVars, latest, mu, mpc, rec,
                 fusedClosed, storedSince, assembled, emitted, writers, rowsWritten,
                 frameWrites, fpc, fidx, ffinal, stopFlushed>>

\* Writer goroutine, case rec, ok := <-fusedCh with ok true.
WriterRecv ==
  /\ Alive
  /\ wpc = "recv"
  /\ Len(fusedOut) > 0
  /\ wrec' = Head(fusedOut)
  /\ fusedOut' = Tail(fusedOut)
  /\ taken' = taken + 1
  /\ wstage' = 1
  /\ wpc' = "write"
  /\ UNCHANGED <<timeLimit, cfgVars, mainVars, now, prodVars, drainVars, latest, mu, mpc, rec,
                 fusedClosed, storedSince, assembled, emitted, writers, rowsWritten,
                 frameWrites, fpc, fidx, ffinal, stopFlushed>>

\* filepath.Join of a directory and a file name, both clean: an empty
\* directory is left out.
Join(dir, name) == IF dir = "" THEN name ELSE dir \o "/" \o name

\* rc.sessionDir: the session directory (base_dir joined with the session name).
SessionDir == "session"

\* rc.framesDir, and rc.saveFrames as NewRecordingController sets it.
FramesDir == Join(SessionDir, savePath)

RcSaveFrames == "camera" \in enabled /\ saveFrames

\* Mutant: the frame is saved whether or not it has raw bytes.
WriterWriteIgnoresBytes ==
  /\ Alive
  /\ wpc = "write"
  /\ wstage <= Len(WriterOrder)
  /\ LET w == WriterOrder[wstage]
         save == w = "camera" /\ RcSaveFrames
         fname == IF wstage = 1 THEN "" ELSE itoa64(wrec.comp[w].ts) \o ".jpg"
         f == IF wstage = 1 THEN Nil
              ELSE IF save THEN [wrec.comp[w] EXCEPT !.path = Join(savePath, fname)]
              ELSE wrec.comp[w]
         row == IF wstage = 1
                  THEN DataRow(wrec.ts, FusedCSVRow(wrec))
                  ELSE DataRow(f.ts, CSVRow(w, f))
     IN /\ wrec' = IF save THEN [wrec EXCEPT !.comp[w] = f] ELSE wrec
        /\ frameWrites' = IF save THEN frameWrites \cup {Join(FramesDir, fname)}
                          ELSE frameWrites
        /\ writers' = [writers EXCEPT ![w] = WriteRow(@, row)]
  /\ wstage' = NextStage(wrec, wstage + 1)
  /\ UNCHANGED <<timeLimit, cfgVars, mainVars, now, prodVars, drainVars, fusionVars,
                 rowsWritten, wpc, taken, fpc, fidx, ffinal, stopFlushed>>

\* Mutant: the file path is set but no frame-write goroutine is launched.
WriterWriteNoFrameTask ==
  /\ Alive
  /\ wpc = "write"
  /\ wstage <= Len(WriterOrder)
  /\ LET w == WriterOrder[wstage]
         save == w = "camera" /\ RcSaveFrames /\ wrec.comp[w].jpeg
         fname == IF wstage = 1 THEN "" ELSE itoa64(wrec.comp[w].ts) \o ".jpg"
         f == IF wstage = 1 THEN Nil
              ELSE IF save THEN [wrec.comp[w] EXCEPT !.path = Join(savePath, fname)]
              ELSE wrec.comp[w]
         row == IF wstage = 1
                  THEN DataRow(wrec.ts, FusedCSVRow(wrec))
                  ELSE DataRow(f.ts, CSVRow(w, f))
     IN /\ wrec' = IF save THEN [wrec EXCEPT !.comp[w] = f] ELSE wrec
        /\ frameWrites' = frameWrites
        /\ writers' = [writers EXCEPT ![w] = WriteRow(@, row)]
  /\ wstage' = NextStage(wrec, wstage + 1)
  /\ UNCHANGED <<timeLimit, cfgVars, mainVars, now, prodVars, drainVars, fusionVars,
                 rowsWritten, wpc, taken, fpc, fidx, ffinal, stopFlushed>>

\* writeRecord: the next WriteRow. Before the camera row, when frames are
\* saved and the frame has raw bytes: set rec.Camera.FilePath and launch the
\* goroutine that writes the frame file.
WriterWrite ==
  /\ Alive
  /\ wpc = "write"
  /\ wstage <= Len(WriterOrder)
  /\ LET w == WriterOrder[wstage]
         save == w = "camera" /\ RcSaveFrames /\ wrec.comp[w].jpeg
         fname == IF wstage = 1 THEN "" ELSE itoa64(wrec.comp[w].ts) \o ".jpg"
         f == IF wstage = 1 THEN Nil
              ELSE IF save THEN [wrec.comp[w] EXCEPT !.path = Join(savePath, fname)]
              ELSE wrec.comp[w]
         row == IF wstage = 1
                  THEN DataRow(wrec.ts, FusedCSVRow(wrec))
                  ELSE DataRow(f.ts, CSVRow(w, f))
     IN /\ wrec' = IF save THEN [wrec EXCEPT !.comp[w] = f] ELSE wrec
        /\ frameWrites' = IF save THEN frameWrites \cup {Join(FramesDir, fname)}
                          ELSE frameWrites
        /\ writers' = [writers EXCEPT ![w] = WriteRow(@, row)]
  /\ wstage' = NextStage(wrec, wstage + 1)
  /\ UNCHANGED <<timeLimit, cfgVars, mainVars, now, prodVars, drainVars, fusionVars,
                 rowsWritten, wpc, taken, fpc, fidx, ffinal, stopFlushed>>

\* Mutant: a record without any component is not counted.
WriterCountSkipsEmpty ==
  /\ Alive
  /\ wpc = "write"
  /\ wstage = AfterLast
  /\ rowsWritten' = IF wrec.comp = NoCells THEN rowsWritten ELSE rowsWritten + 1
  /\ wrec' = NoRec
  /\ wstage' = 0
  /\ wpc' = "recv"
  /\ UNCHANGED <<timeLimit, cfgVars, mainVars, now, prodVars, drainVars, fusionVars,
                 writers, taken, frameWrites, fpc, fidx, ffinal, stopFlushed>>

\* writeRecord: atomic.AddUint64(&rc.rowsWritten, 1), and back to the select.
WriterCount ==
  /\ Alive
  /\ wpc = "write"
  /\ wstage = AfterLast
  /\ rowsWritten' = rowsWritten + 1
  /\ wrec' = NoRec
  /\ wstage' = 0
  /\ wpc' = "recv"
  /\ UNCHANGED <<timeLimit, cfgVars, mainVars, now, prodVars, drainVars, fusionVars,
                 writers, taken, frameWrites, fpc, fidx, ffinal, stopFlushed>>

\* Writer goroutine, case <-ctx.Done(), or fusedCh closed and empty.
WriterExit ==
  /\ Alive
  /\ wpc = "recv"
  /\ \/ cancelled
     \/ fusedClosed /\ Len(fusedOut) = 0
  /\ wpc' = "done"
  /\ UNCHANGED <<timeLimit, cfgVars, mainVars, now, prodVars, drainVars, fusionVars,
                 writers, rowsWritten, wstage, wrec, taken, frameWrites, fpc, fidx, ffinal, stopFlushed>>

\* --------------------------------------------------- recorder: the flusher
\* flushAll skips nil writers.
NextFlush(i) ==
  IF \E j \in i..Len(WriterOrder) : writers[WriterOrder[j]].state # "nil"
    THEN CHOOSE j \in i..Len(WriterOrder) :
           /\ writers[WriterOrder[j]].state # "nil"
           /\ \A k \in i..(j - 1) : writers[WriterOrder[k]].state = "nil"
    ELSE AfterLast

\* Flusher goroutine, case <-ticker.C: flushAll begins.
FlusherTick ==
  /\ Alive
  /\ fpc = "wait"
  /\ fidx' = NextFlush(1)
  /\ ffinal' = FALSE
  /\ fpc' = "flush"
  /\ UNCHANGED <<timeLimit, cfgVars, mainVars, now, prodVars, drainVars, fusionVars,
                 writers, rowsWritten, wpc, wstage, wrec, taken, frameWrites, stopFlushed>>

\* Mutant: the flusher's ctx.Done case flushes and goes back to the select.
FlusherCancelNoReturn ==
  /\ Alive
  /\ fpc = "wait"
  /\ cancelled
  /\ fidx' = NextFlush(1)
  /\ ffinal' = FALSE
  /\ fpc' = "flush"
  /\ UNCHANGED <<timeLimit, cfgVars, mainVars, now, prodVars, drainVars, fusionVars,
                 writers, rowsWritten, wpc, wstage, wrec, taken, frameWrites, stopFlushed>>

\* Flusher goroutine, case <-ctx.Done(): the last flushAll begins.
FlusherCancel ==
  /\ Alive
  /\ fpc = "wait"
  /\ cancelled
  /\ fidx' = NextFlush(1)
  /\ ffinal' = TRUE
  /\ fpc' = "flush"
  /\ UNCHANGED <<timeLimit, cfgVars, mainVars, now, prodVars, drainVars, fusionVars,
                 writers, rowsWritten, wpc, wstage, wrec, taken, frameWrites, stopFlushed>>

\* flushAll: the next Flush; after the last one, back to the select or return.
FlusherFlush ==
  /\ Alive
  /\ fpc = "flush"
  /\ LET w == WriterOrder[fidx]
         nxt == NextFlush(fidx + 1)
     IN /\ writers' = [writers EXCEPT ![w] = Flush(@)]
        /\ IF nxt = AfterLast
             THEN /\ fidx' = 0
                  /\ fpc' = IF ffinal THEN "done" ELSE "wait"
             ELSE /\ fidx' = nxt
                  /\ fpc' = fpc
  /\ UNCHANGED <<timeLimit, cfgVars, mainVars, now, prodVars, drainVars, fusionVars,
                 rowsWritten, wpc, wstage, wrec, taken, frameWrites, ffinal, stopFlushed>>

\* ------------------------------------------------------------ construction
\* The controllers are built and their goroutines launched, with the default
\* intervals; the merge and the flusher goroutines are left to the caller.
Callers == {"writer", "flusher"}

\* The fields of one CSV row: who wrote it, in which of its calls, and the
\* position of the field in the row. A row has RowLen fields.
RowLen == 2
Field(t, n, k) == [by |-> t, n |-> n, k |-> k]

\* NewCSVWriter at the grain of the mutex: the mutex free, the header in the
\* buffer when write_header is set, nothing on the file, rows = 0.
CSVWriterNew(hdr) ==
  [mu |-> "free",
   buf |-> IF hdr THEN [k \in 1..RowLen |-> Field("header", 0, k)] ELSE <<>>,
   file |-> <<>>,
   open |-> TRUE,
   rows |-> 0]

\* The nil *Logger, and no call.
NilLogger == [id |-> 0, level |-> "none", outputs |-> {}, closed |-> FALSE]
NoLogCall == [op |-> "none", level |-> "none", path |-> ""]

\* main, utils.InitLogger(utils.INFO, *logFile) with the default -log "":
\* the logger every run of the pipeline has.
Logged ==
  /\ globalLogger = [id |-> 1, level |-> "INFO", outputs |-> {"stdout"}, closed |-> FALSE]
  /\ logOnce = TRUE
  /\ created = 1
  /\ logCall = [op |-> "InitLogger", level |-> "INFO", path |-> ""]
  /\ logRet = 1

\* No LidarPacket built yet.
NoPkt == [num_points |-> 0, size_bytes |-> 0, built |-> FALSE]

\* points_per_packet of the sample configuration.
DefaultPoints == 384

NoCall == [op |-> "none", pc |-> "idle", part |-> 0, fld |-> 0, ret |-> 0, n |-> 0]

Wired ==
  /\ csvw = CSVWriterNew(writeHeader)
  /\ call = [t \in Callers |-> NoCall]
  /\ completed = 0
  /\ framesDone = {}
  /\ lidarPkt = NoPkt
  /\ pcMain = "running"
  /\ cancelled = FALSE
  /\ now = 0
  /\ chanOpen = NewSensorsController(enabled)
  /\ frame = NoCells
  /\ seq = [s \in Sensors |-> 0]
  /\ produced = [s \in Sensors |-> 0]
  /\ dropped = [s \in Sensors |-> 0]
  /\ queue = [s \in Sensors |-> <<>>]
  /\ closed = [s \in Sensors |-> FALSE]
  /\ sent = [s \in Sensors |-> <<>>]
  /\ dpc = FusionStart(chanOpen)
  /\ dval = NoCells
  /\ stored = [s \in Sensors |-> <<>>]
  /\ latest = NoCells
  /\ mu = "free"
  /\ rec = NoRec
  /\ fusedOut = <<>>
  /\ fusedClosed = FALSE
  /\ storedSince = NoCells
  /\ assembled = <<>>
  /\ emitted = <<>>
  /\ writers = NewRecordingController(enabled, writeHeader)
  /\ rowsWritten = 0
  /\ wpc = "recv"
  /\ wstage = 0
  /\ wrec = NoRec
  /\ taken = 0
  /\ fidx = 0
  /\ ffinal = FALSE
  /\ stopFlushed = 0
  /\ simulate = TRUE
  /\ savePath = "frames"
  /\ frameWrites = {}
  /\ overwrite = FALSE
  /\ disk0 = NoDisk
  /\ disk = [dir |-> TRUE,
             files |-> [w \in Writers |-> IF writers[w].state = "nil" THEN "absent" ELSE "new"]]
  /\ nidx = 0
  /\ err = "none"

\* ... and every reader has made its ticker, at the rate of the sample
\* configuration; frames are not saved.
Built ==
  /\ Wired
  /\ Logged
  /\ saveFrames = FALSE
  /\ pointsPerPkt = DefaultPoints
  /\ ppc = SensorsStart(chanOpen)
  /\ rate = DefaultRate
  /\ prodPeriod = DefaultPeriods(chanOpen)

\* The state when main enters its event loop: the controllers are built and
\* started, the merge and the flusher goroutines have made their tickers and
\* no goroutine has taken a step of its loop yet.
Started ==
  /\ Built
  /\ alignMs = 33
  /\ flushIntervalMs = 100
  /\ mpc = "tick"
  /\ mergePeriod = Duration(AlignIntervalMs(alignMs))
  /\ fpc = "wait"
  /\ flushPeriod = Duration(FlushMs(flushIntervalMs))

\* A run of the pipeline: up to MaxEnabled sensors, headers written.
Init ==
  /\ enabled \in {e \in SUBSET Sensors : Cardinality(e) <= MaxEnabled}
  /\ channelBuffer \in 1..MaxChanBuf
  /\ writeHeader = TRUE
  /\ timeLimit = MaxTime
  /\ Started

\* A run with the periodic flusher: up to MaxEnabledStop sensors.
InitFlush ==
  /\ enabled \in {e \in SUBSET Sensors : Cardinality(e) <= MaxEnabledStop}
  /\ channelBuffer \in 1..MaxChanBuf
  /\ writeHeader = TRUE
  /\ timeLimit = MaxTime
  /\ Started

\* A run that goes on to shutdown: up to MaxEnabledStop sensors, with and
\* without headers.
InitStop ==
  /\ enabled \in {e \in SUBSET Sensors : Cardinality(e) <= MaxEnabledStop}
  /\ channelBuffer \in 1..MaxChanBuf
  /\ writeHeader \in BOOLEAN
  /\ timeLimit = MaxTimeStop
  /\ Started

\* ---------------------------------------------------------- specification
\* The pipeline running: producers, drains, merge and the recorder's writer.
Next ==
  \/ \E s \in Sensors : ProducerTick(s)
  \/ \E s \in Sensors : ProducerSend(s)
  \/ \E s \in Sensors : DrainRecv(s)
  \/ \E s \in Sensors : DrainStore(s)
  \/ MergeTick
  \/ MergeClear
  \/ MergeSend
  \/ WriterRecv
  \/ WriterWrite
  \/ WriterCount

Spec == Init /\ [][Next]_vars

\* The pipeline with the periodic flusher, cancellation and teardown.
NextStop ==
  \/ Next
  \/ FlusherTick
  \/ FlusherFlush
  \/ MainShutdown
  \/ \E s \in Sensors : ProducerExit(s)
  \/ \E s \in Sensors : DrainExit(s)
  \/ MergeExit
  \/ WriterExit
  \/ FlusherCancel
  \/ MainStop
  \/ MainExit

SpecStop == InitStop /\ [][NextStop]_vars

\* The pipeline with the periodic flusher, before cancellation.
NextFlushing ==
  \/ Next
  \/ FlusherTick
  \/ FlusherFlush

SpecFlush == InitFlush /\ [][NextFlushing]_vars

\* ================================================================ claims
\* The components of sensor s in the FusedRecords assembled so far.
Comp(i, s) == assembled[i].comp[s]

\* C1: on every tick a producer builds one record and offers it with a
\* non-blocking send: on a full queue the record is discarded and dropped
\* grows by 1, otherwise the record is enqueued and produced grows by 1;
\* a producer that has a record to send is never waiting on its queue
\* (as long as the process runs).
C1_ProducerNeverBlocks ==
  /\ [][\A s \in Sensors :
          /\ (ppc[s] = "tick" /\ ppc'[s] = "send") =>
               /\ frame'[s] # Nil
               /\ seq'[s] = seq[s] + 1
          /\ (ppc[s] = "send" /\ ppc'[s] = "tick") =>
               IF Len(queue[s]) >= ChanCap(s)
                 THEN /\ queue'[s] = queue[s]
                      /\ dropped'[s] = dropped[s] + 1
                      /\ produced'[s] = produced[s]
                 ELSE /\ queue'[s] = Append(queue[s], frame[s])
                      /\ produced'[s] = produced[s] + 1
                      /\ dropped'[s] = dropped[s]]_vars
  /\ [](\A s \in Sensors : (Alive /\ ppc[s] = "send") => ENABLED ProducerSend(s))

\* C1 witness: a producer has enqueued one record and discarded another.
C1_Witness == \E s \in Sensors : produced[s] > 0 /\ dropped[s] > 0

\* C2: with the recorder not consuming fused_out, every producer and the
\* merge task can take their next step in every state (the merge task with
\* fused_out full too), and a drain waits only for its own producer or for
\* the merge task's critical section, which the merge task can leave;
\* before cancellation some ingest task can always step.
C2_IngestNeverBlocks ==
  Alive =>
  /\ \A s \in Sensors :
       /\ (ppc[s] = "tick" /\ now < timeLimit) => ENABLED ProducerTick(s)
       /\ ppc[s] = "send" => ENABLED ProducerSend(s)
       /\ (dpc[s] = "recv" /\ Len(queue[s]) > 0) => ENABLED DrainRecv(s)
       /\ dpc[s] = "store" =>
            \/ ENABLED DrainStore(s)
            \/ mpc = "clear" /\ ENABLED MergeClear
  /\ (mpc = "tick" /\ now < timeLimit) => ENABLED MergeTick
  /\ mpc = "clear" => ENABLED MergeClear
  /\ mpc = "send" => ENABLED MergeSend
  /\ (now < timeLimit /\ ~cancelled) =>
       ENABLED (MergeTick \/ MergeClear \/ MergeSend
                  \/ \E s \in Sensors : ProducerTick(s) \/ ProducerSend(s))

\* C2 witness: the writer took nothing, fused_out is full, and the merge task
\* has dropped a record and is back at its ticker.
C2_Witness ==
  /\ taken = 0
  /\ Len(fusedOut) = FusedCap
  /\ Len(assembled) > FusedCap
  /\ mpc = "tick"

\* C3: no sample is a component of two FusedRecords.
C3_NoSampleTwice ==
  \A s \in Sensors : \A i, j \in 1..Len(assembled) :
    (i < j /\ Comp(i, s) # Nil /\ Comp(j, s) # Nil) => Comp(i, s).id # Comp(j, s).id

\* C3 witness: two FusedRecords carry a sample of the same sensor.
C3_Witness ==
  \E s \in Sensors : \E i, j \in 1..Len(assembled) :
    i < j /\ Comp(i, s) # Nil /\ Comp(j, s) # Nil

\* C4: the component of a FusedRecord for a sensor is the last sample the
\* drain stored in the cell since the previous merge tick, and nil exactly
\* when it stored none.
C4_LatestWins ==
  \A i \in 1..Len(assembled) : assembled[i].comp = assembled[i].since

\* C4 witness: the first FusedRecord carries the second sample of a sensor,
\* stored over the first one before the tick.
C4_Witness ==
  \E s \in Sensors : Len(assembled) >= 1 /\ Comp(1, s).id = 1 /\ dropped[s] = 0

\* The last FusedRecord before record i with a sample of sensor s (0 if none).
PrevWith(i, s) ==
  IF \E j \in 1..(i - 1) : Comp(j, s) # Nil
    THEN CHOOSE j \in 1..(i - 1) :
           Comp(j, s) # Nil /\ \A k \in (j + 1)..(i - 1) : Comp(k, s) = Nil
    ELSE 0

CsvRows(w) == DataRows(writers[w].file \o writers[w].buf)

RowTs(w) == [i \in 1..Len(CsvRows(w)) |-> CsvRows(w)[i].ts]

\* The timestamps of the samples of sensor s in the emitted FusedRecords.
EmittedTs(s) ==
  LET with == SelectSeq(emitted, LAMBDA r : r.comp[s] # Nil)
  IN [i \in 1..Len(with) |-> with[i].comp[s].ts]

IsPrefix(a, b) == Len(a) <= Len(b) /\ \A i \in 1..Len(a) : a[i] = b[i]

C8_DisabledSensorAbsent ==
  \A s \in Sensors \ enabled :
    /\ ~chanOpen[s]
    /\ ppc[s] = "off"
    /\ dpc[s] = "off"
    /\ writers[s].state = "nil"
    /\ \A i \in 1..Len(assembled) : Comp(i, s) = Nil

\* C8 witness: with one sensor disabled, a FusedRecord carrying a sample of
\* an enabled sensor has been written to that sensor's CSV.
C8_Witness ==
  \E s \in Sensors \ enabled : \E t \in enabled :
    /\ \E i \in 1..Len(assembled) : Comp(i, t) # Nil /\ Comp(i, s) = Nil
    /\ writers[t].rows >= 1

Stopped == pcMain \in {"stopped", "finished"}

\* C9: once Stop has returned, rows_written is the number of data rows of
\* fused.csv and the number of FusedRecords the writer took; at any time
\* rows_written is at most the number of rows handed to the fused writer.
C9_RowsWritten ==
  /\ Stopped =>
       /\ rowsWritten = Len(DataRows(writers["fused"].file))
       /\ rowsWritten = taken
  /\ rowsWritten <= Rows(writers["fused"])

\* C9 witness: Stop has returned on a fused.csv with a header and data rows.
C9_Witness == pcMain = "stopped" /\ writeHeader /\ rowsWritten >= 2

\* C10: once Stop has returned, no writer holds buffered rows: every row
\* passed to WriteRow is in the writer's file.
C10_AllFlushedAtStop ==
  Stopped =>
    \A w \in Writers :
      writers[w].state # "nil" =>
        /\ writers[w].state = "closed"
        /\ writers[w].buf = <<>>
        /\ Len(DataRows(writers[w].file)) = Rows(writers[w])

\* C10 witness: Stop returned after finding rows written after the flusher's
\* last Flush, one of them in a per-sensor CSV.
C10_Witness ==
  /\ pcMain = "stopped"
  /\ stopFlushed > 0
  /\ \E s \in Sensors : Rows(writers[s]) >= 1

\* ------------------------------------------------------ fair scheduling
\* The Go scheduler runs every runnable goroutine, so main and the two
\* goroutines it joins in Stop keep taking their steps (weak fairness). A
\* select with several ready cases picks one at random, so its ctx.Done case,
\* ready every time the goroutine is back at the select, is taken (strong
\* fairness). Nothing obliges a signal to arrive: MainShutdown has no
\* fairness; and nothing is assumed of the goroutines Stop does not join.
Fairness ==
  /\ WF_vars(WriterWrite \/ WriterCount)
  /\ SF_vars(WriterExit)
  /\ WF_vars(FlusherFlush)
  /\ SF_vars(FlusherCancel)
  /\ WF_vars(MainStop \/ MainExit)

\* The pipeline up to the end of the process, under fair scheduling.
SpecLive == InitStop /\ [][NextStop]_vars /\ Fairness

\* Every producer, drain and the merge task have returned.
IngestExited ==
  /\ \A s \in Sensors : ppc[s] \in {"off", "done"} /\ dpc[s] \in {"off", "done"}
  /\ \A s \in Sensors : chanOpen[s] => closed[s]
  /\ mpc = "done"
  /\ fusedClosed

\* The writer and the flusher of the recorder have returned.
RecorderExited == wpc = "done" /\ fpc = "done"

\* C11 as stated: by the time the process ends, every producer has closed its
\* queue and exited, every drain has exited and the merge task has closed
\* fused_out and exited.
C11_AllTasksExit == pcMain = "finished" => IngestExited

\* C11, amended: once ctx is done, under fair scheduling the writer and the
\* flusher exit and Stop returns; until the process ends no producer, drain
\* or merge task is blocked: at its select its exit is ready, and elsewhere
\* its next step is ready or waits only for the merge task's critical
\* section. (Nothing joins these tasks: main may return before they exit.)
C11_ShutdownTerminates ==
  /\ cancelled ~> (Stopped /\ RecorderExited)
  /\ []((cancelled /\ Alive) =>
          /\ \A s \in Sensors :
               /\ ppc[s] = "tick" => ENABLED ProducerExit(s)
               /\ ppc[s] = "send" => ENABLED ProducerSend(s)
               /\ dpc[s] = "recv" => ENABLED DrainExit(s)
               /\ dpc[s] = "store" => (ENABLED DrainStore(s) \/ ENABLED MergeClear)
          /\ mpc = "tick" => ENABLED MergeExit
          /\ mpc = "clear" => ENABLED MergeClear
          /\ mpc = "send" => ENABLED MergeSend)

\* C11 witness: Stop has returned after a cancel that found records in a
\* producer's queue and in fused_out; every task has exited.
C11_Witness ==
  /\ pcMain = "stopped"
  /\ RecorderExited
  /\ IngestExited
  /\ \E s \in Sensors : Len(queue[s]) > 0
  /\ Len(fusedOut) > 0

\* ------------------------------------------------------- session bring-up
\* What the steps of NewRecordingController leave alone: the goroutines of
\* the sensors and fusion controllers (started before it is called) and the
\* recorder's own, which Start has not launched yet.
bringUpFrame ==
  <<enabled, channelBuffer, writeHeader, overwrite, disk0, cancelled, chanOpen, now,
    timeLimit, prodVars, drainVars, fusionVars, rowsWritten, wstage, wrec, taken,
    frameWrites, fidx, ffinal, stopFlushed, simulate, saveFrames, savePath, alignMs,
    flushIntervalMs, mergePeriod, rate, prodPeriod, csvVars, framesDone, lidarVars, logVars>>

\* Mutant: the session directory is used whether or not it exists.
RecStatNoGuard ==
  /\ pcMain = "stat"
  /\ pcMain' = "mkdir"
  /\ UNCHANGED <<bringUpFrame, disk, nidx, err, writers, wpc, fpc, flushPeriod>>

\* NewRecordingController: with overwrite false, os.Stat(sessionDir); if the
\* path exists, return the "already exists" error (main then calls Fatal).
RecStat ==
  /\ pcMain = "stat"
  /\ IF ~overwrite /\ disk.dir
       THEN /\ err' = "exists"
            /\ pcMain' = "fatal"
       ELSE /\ err' = err
            /\ pcMain' = "mkdir"
  /\ UNCHANGED <<bringUpFrame, disk, nidx, writers, wpc, fpc, flushPeriod>>

\* NewRecordingController opens a CSV at position i of WriterOrder:
\* fused.csv always, <sensor>.csv when the sensor is enabled.
OpensAt(i) == i = 1 \/ (i \in 2..Len(WriterOrder) /\ WriterOrder[i] \in enabled)

NextOpen(i) ==
  IF \E j \in i..Len(WriterOrder) : OpensAt(j)
    THEN CHOOSE j \in i..Len(WriterOrder) : OpensAt(j) /\ \A k \in i..(j - 1) : ~OpensAt(k)
    ELSE AfterLast

\* NewRecordingController: os.MkdirAll(sessionDir), which may fail.
RecMkdir ==
  /\ pcMain = "mkdir"
  /\ \E ok \in BOOLEAN :
       IF ok \/ disk.dir
         THEN /\ disk' = [disk EXCEPT !.dir = TRUE]
              /\ nidx' = 1
              /\ pcMain' = "create"
              /\ err' = err
         ELSE /\ err' = "mkdir"
              /\ pcMain' = "fatal"
              /\ UNCHANGED <<disk, nidx>>
  /\ UNCHANGED <<bringUpFrame, writers, wpc, fpc, flushPeriod>>

\* NewRecordingController: the next views.NewCSVWriter. os.Create makes or
\* truncates the file; when it fails the error is returned as it is, the
\* writers opened before it stay open. After camera.csv, with save_frames
\* set, os.MkdirAll(framesDir), whose failure is returned the same way.
RecCreate ==
  /\ pcMain = "create"
  /\ nidx <= Len(WriterOrder)
  /\ LET w == WriterOrder[nidx]
     IN \E ok, okDir \in BOOLEAN :
          IF ok
            THEN /\ writers' = [writers EXCEPT ![w] = NewCSVWriter(writeHeader, CSVHeader(w))]
                 /\ disk' = [disk EXCEPT !.files[w] = "new"]
                 /\ IF w = "camera" /\ saveFrames /\ ~okDir
                      THEN /\ err' = "frames"
                           /\ pcMain' = "fatal"
                           /\ nidx' = nidx
                      ELSE /\ nidx' = NextOpen(nidx + 1)
                           /\ UNCHANGED <<err, pcMain>>
            ELSE /\ err' = "create"
                 /\ pcMain' = "fatal"
                 /\ UNCHANGED <<writers, disk, nidx>>
  /\ UNCHANGED <<bringUpFrame, wpc, fpc, flushPeriod>>

\* NewRecordingController returns rc, nil; RecordingController.Start launches
\* the flusher and the writer goroutines.
RecStart ==
  /\ pcMain = "create"
  /\ nidx = AfterLast
  /\ nidx' = 0
  /\ wpc' = "recv"
  /\ fpc' = "wait"
  /\ flushPeriod' = Duration(FlushMs(flushIntervalMs))
  /\ pcMain' = "running"
  /\ UNCHANGED <<bringUpFrame, disk, err, writers>>

\* The session directories NewRecordingController may find: none, or one
\* left by an earlier session with some of its CSV files.
Disks ==
  {NoDisk} \cup
  {[dir |-> TRUE, files |-> [w \in Writers |-> IF w \in old THEN "old" ELSE "absent"]] :
     old \in SUBSET {"fused", "camera"}}

\* main is about to call NewRecordingController: sensors and fusion are
\* started, the recorder has no writer and no goroutine.
InitBringUp ==
  /\ enabled \in {e \in SUBSET Sensors : Cardinality(e) <= MaxEnabled}
  /\ channelBuffer \in 1..MaxChanBuf
  /\ writeHeader \in BOOLEAN
  /\ overwrite \in BOOLEAN
  /\ disk0 \in Disks
  /\ disk = disk0
  /\ timeLimit = MaxTime
  /\ pcMain = "stat"
  /\ cancelled = FALSE
  /\ now = 0
  /\ chanOpen = NewSensorsController(enabled)
  /\ ppc = SensorsStart(chanOpen)
  /\ frame = NoCells
  /\ seq = [s \in Sensors |-> 0]
  /\ produced = [s \in Sensors |-> 0]
  /\ dropped = [s \in Sensors |-> 0]
  /\ queue = [s \in Sensors |-> <<>>]
  /\ closed = [s \in Sensors |-> FALSE]
  /\ sent = [s \in Sensors |-> <<>>]
  /\ dpc = FusionStart(chanOpen)
  /\ dval = NoCells
  /\ stored = [s \in Sensors |-> <<>>]
  /\ latest = NoCells
  /\ mu = "free"
  /\ mpc = "tick"
  /\ rec = NoRec
  /\ fusedOut = <<>>
  /\ fusedClosed = FALSE
  /\ storedSince = NoCells
  /\ assembled = <<>>
  /\ emitted = <<>>
  /\ writers = [w \in Writers |-> NilWriter]
  /\ rowsWritten = 0
  /\ wpc = "off"
  /\ wstage = 0
  /\ wrec = NoRec
  /\ taken = 0
  /\ fpc = "off"
  /\ fidx = 0
  /\ ffinal = FALSE
  /\ stopFlushed = 0
  /\ simulate = TRUE
  /\ saveFrames \in BOOLEAN
  /\ savePath = "frames"
  /\ frameWrites = {}
  /\ nidx = 0
  /\ err = "none"
  /\ alignMs = 33
  /\ flushIntervalMs \in {0, 100}
  /\ mergePeriod = Duration(AlignIntervalMs(alignMs))
  /\ flushPeriod = 0
  /\ rate = DefaultRate
  /\ prodPeriod = DefaultPeriods(chanOpen)
  /\ csvw = CSVWriterNew(writeHeader)
  /\ call = [t \in Callers |-> NoCall]
  /\ completed = 0
  /\ framesDone = {}
  /\ pointsPerPkt = DefaultPoints
  /\ lidarPkt = NoPkt
  /\ Logged

NextBringUp ==
  \/ RecStat
  \/ RecMkdir
  \/ RecCreate
  \/ RecStart

SpecBringUp == InitBringUp /\ [][NextBringUp]_vars

\* C12: when overwrite is false and the session directory exists,
\* NewRecordingController does nothing but return the "already exists"
\* error: the directory and its CSV files stay as they were and no writer
\* is opened.
C12_OverwriteGuard ==
  (~overwrite /\ disk0.dir) =>
    /\ pcMain \in {"stat", "fatal"}
    /\ pcMain = "fatal" => err = "exists"
    /\ disk = disk0
    /\ \A w \in Writers : writers[w].state = "nil"

\* C12 witness: the error was returned over a directory holding the CSV
\* files of an earlier session.
C12_Witness ==
  /\ err = "exists"
  /\ pcMain = "fatal"
  /\ disk0.files["fused"] = "old"
  /\ "camera" \in enabled

\* The ticks a producer has handled: a record built and offered to the queue.
Handled(s) == IF ppc[s] = "send" THEN seq[s] - 1 ELSE seq[s]

\* C13: for every producer, after n handled ticks produced + dropped = n,
\* produced is the number of records ever enqueued on its queue, and neither
\* counter ever decreases.
C13_CounterAccounting ==
  /\ [](\A s \in Sensors :
          /\ produced[s] + dropped[s] = Handled(s)
          /\ produced[s] = Len(sent[s]))
  /\ [][\A s \in Sensors : produced'[s] >= produced[s] /\ dropped'[s] >= dropped[s]]_vars

\* C13 witness: a producer has handled three ticks, with a record enqueued,
\* a record discarded and a record taken from the queue by the drain.
C13_Witness ==
  \E s \in Sensors :
    /\ ppc[s] = "tick"
    /\ Handled(s) >= 3
    /\ dropped[s] >= 1
    /\ Len(sent[s]) > Len(queue[s])

\* ----------------------------------------------- scenario S3: a stalled recorder
\* Camera only, channel_buffer = 2, and a recorder that takes nothing from
\* fused_out: its writer goroutine does not step.
InitStall ==
  /\ enabled = {"camera"}
  /\ channelBuffer = 2
  /\ writeHeader = TRUE
  /\ timeLimit = MaxTimeStall
  /\ Started

NextStall ==
  \/ \E s \in Sensors : ProducerTick(s)
  \/ \E s \in Sensors : ProducerSend(s)
  \/ \E s \in Sensors : DrainRecv(s)
  \/ \E s \in Sensors : DrainStore(s)
  \/ MergeTick
  \/ MergeClear
  \/ MergeSend

SpecStall == InitStall /\ [][NextStall]_vars

\* The stall has lasted: fused_out is full and the merge task has found it so.
StallLasts == taken = 0 /\ Len(fusedOut) = FusedCap /\ Len(assembled) > FusedCap

\* C14 as stated: once the stall has lasted and the camera has handled more
\* ticks than its queue holds, its dropped counter has grown.
C14_DroppedGrows ==
  (StallLasts /\ ppc["camera"] = "tick" /\ Handled("camera") > ChanCap("camera") + 1) =>
    dropped["camera"] >= 1

\* C14, amended: the stall does not reach the producer. dropped grows only
\* on a tick whose send finds the camera queue itself full, whatever
\* fused_out holds; with fused_out full it is the merge task that discards
\* its record; and the drain is never held up by the stall, so it can empty
\* the queue before every tick and dropped can stay 0.
C14_StallDoesNotReachProducer ==
  /\ [][/\ dropped'["camera"] > dropped["camera"] =>
             /\ Len(queue["camera"]) = ChanCap("camera")
             /\ dropped'["camera"] = dropped["camera"] + 1
        /\ (ppc["camera"] = "send" /\ ppc'["camera"] = "tick"
              /\ Len(queue["camera"]) < ChanCap("camera")) =>
             /\ dropped'["camera"] = dropped["camera"]
             /\ queue'["camera"] = Append(queue["camera"], frame["camera"])
        /\ (mpc = "send" /\ mpc' = "tick" /\ Len(fusedOut) = FusedCap) =>
             /\ fusedOut' = fusedOut
             /\ emitted' = emitted]_vars
  /\ [](/\ (dpc["camera"] = "recv" /\ Len(queue["camera"]) > 0) => ENABLED DrainRecv("camera")
        /\ dpc["camera"] = "store" => (ENABLED DrainStore("camera") \/ ENABLED MergeClear))

\* C14 witness: during the stall the camera producer discarded a frame on
\* its own full queue.
C14_Witness ==
  /\ StallLasts
  /\ dropped["camera"] >= 1
  /\ Len(queue["camera"]) = ChanCap("camera")

\* C15: for every CSV writer, a second Flush right after a Flush (no
\* WriteRow between them) leaves the file, its size and the writer as the
\* first Flush left them.
C15_FlushIdempotent ==
  \A w \in Writers :
    writers[w].state # "nil" =>
      LET once == Flush(writers[w])
          twice == Flush(once)
      IN /\ twice.file = once.file
         /\ Len(twice.file) = Len(once.file)
         /\ twice = once

\* C15 witness: fused.csv has rows on disk and a row in the buffer, which
\* the first Flush moves to the file.
C15_Witness ==
  /\ writers["fused"].state = "open"
  /\ Len(DataRows(writers["fused"].file)) >= 1
  /\ Len(writers["fused"].buf) >= 1
  /\ fpc = "flush"

\* ------------------------------------------------ writeRecord on any record
\* The FusedRecords the writer may receive when every sensor is enabled:
\* any subset of the five components nil, the others samples taken at
\* successive readings of the clock.
FusedRecords ==
  {[ts |-> Len(WriterOrder),
    comp |-> [s \in Sensors |->
                IF s \in present
                  THEN [ts |-> Index(s) - 1, id |-> n,
                        jpeg |-> (s = "camera" /\ simulate), path |-> ""]
                  ELSE Nil]] :
     present \in SUBSET Sensors, n \in 0..MaxRowId}

\* The writer goroutine has just received its first record.
InitRow ==
  /\ enabled = Sensors
  /\ channelBuffer \in 1..MaxChanBuf
  /\ writeHeader \in BOOLEAN
  /\ simulate \in BOOLEAN
  /\ saveFrames \in BOOLEAN
  /\ savePath = "frames"
  /\ frameWrites = {}
  /\ wrec \in FusedRecords
  /\ timeLimit = wrec.ts
  /\ now = wrec.ts
  /\ pcMain = "running"
  /\ cancelled = FALSE
  /\ chanOpen = NewSensorsController(enabled)
  /\ ppc = SensorsStart(chanOpen)
  /\ frame = NoCells
  /\ seq = [s \in Sensors |-> IF wrec.comp[s] # Nil THEN wrec.comp[s].id + 1 ELSE 0]
  /\ produced = [s \in Sensors |-> IF wrec.comp[s] # Nil THEN 1 ELSE 0]
  /\ dropped = [s \in Sensors |-> IF wrec.comp[s] # Nil THEN wrec.comp[s].id ELSE 0]
  /\ queue = [s \in Sensors |-> <<>>]
  /\ closed = [s \in Sensors |-> FALSE]
  /\ sent = [s \in Sensors |-> IF wrec.comp[s] # Nil THEN <<wrec.comp[s]>> ELSE <<>>]
  /\ dpc = FusionStart(chanOpen)
  /\ dval = NoCells
  /\ stored = sent
  /\ latest = NoCells
  /\ mu = "free"
  /\ mpc = "tick"
  /\ rec = NoRec
  /\ fusedOut = <<>>
  /\ fusedClosed = FALSE
  /\ storedSince = NoCells
  /\ assembled = <<[ts |-> wrec.ts, comp |-> wrec.comp, since |-> wrec.comp]>>
  /\ emitted = <<wrec>>
  /\ writers = NewRecordingController(enabled, writeHeader)
  /\ rowsWritten = 0
  /\ wpc = "write"
  /\ wstage = 1
  /\ taken = 1
  /\ fpc = "wait"
  /\ fidx = 0
  /\ ffinal = FALSE
  /\ stopFlushed = 0
  /\ overwrite = FALSE
  /\ disk0 = NoDisk
  /\ disk = [dir |-> TRUE, files |-> [w \in Writers |-> "new"]]
  /\ nidx = 0
  /\ err = "none"
  /\ alignMs = 33
  /\ flushIntervalMs = 100
  /\ mergePeriod = Duration(AlignIntervalMs(alignMs))
  /\ flushPeriod = Duration(FlushMs(flushIntervalMs))
  /\ rate = DefaultRate
  /\ prodPeriod = DefaultPeriods(chanOpen)
  /\ csvw = CSVWriterNew(writeHeader)
  /\ call = [t \in Callers |-> NoCall]
  /\ completed = 0
  /\ framesDone = {}
  /\ pointsPerPkt = DefaultPoints
  /\ lidarPkt = NoPkt
  /\ Logged

NextRow ==
  \/ WriterWrite
  \/ WriterCount
  \/ FlusherTick
  \/ FlusherFlush

SpecRow == InitRow /\ [][NextRow]_vars

\* The columns of fused.csv reserved for each sensor.
Reserved(s) ==
  CASE s = "camera" -> 2..5
    [] s = "lidar" -> 6..8
    [] s = "gps" -> 9..13
    [] s = "imu" -> 14..19
    [] s = "radar" -> 20..22

\* The field of record r that belongs under each column name of fused.csv.
FieldOf(col, r) ==
  CASE col = "timestamp_ns" -> itoa64(r.ts)
    [] col = "cam_frame_id" -> utoa64(r.comp["camera"].id)
    [] col = "cam_file_path" -> r.comp["camera"].path
    [] col = "cam_width" -> Val("width")
    [] col = "cam_height" -> Val("height")
    [] col = "lidar_packet_id" -> utoa64(r.comp["lidar"].id)
    [] col = "lidar_num_points" -> Val("num_points")
    [] col = "lidar_cloud_path" -> ""
    [] col = "gps_lat" -> Val("latitude")
    [] col = "gps_lon" -> Val("longitude")
    [] col = "gps_alt" -> Val("altitude")
    [] col = "gps_speed" -> Val("speed")
    [] col = "gps_heading" -> Val("heading")
    [] col = "imu_ax" -> Val("accel_x")
    [] col = "imu_ay" -> Val("accel_y")
    [] col = "imu_az" -> Val("accel_z")
    [] col = "imu_gx" -> Val("gyro_x")
    [] col = "imu_gy" -> Val("gyro_y")
    [] col = "imu_gz" -> Val("gyro_z")
    [] col = "radar_range" -> Val("range")
    [] col = "radar_azimuth" -> Val("azimuth")
    [] col = "radar_velocity" -> Val("velocity")

\* The row writeRecord has just handed to the fused writer.
LastFusedRow ==
  LET all == writers["fused"].file \o writers["fused"].buf IN all[Len(all)]

\* The lines of a CSV in file order: those on disk, then those buffered.
Lines(w) == writers[w].file \o writers[w].buf

\* The FusedRecord the writer is processing, as the merge task enqueued it.
Received == emitted[taken]

\* C16: whatever components of a FusedRecord are nil, its fused.csv row has
\* the 22 fields of the header, the alignment timestamp first, each sensor's
\* fields under that sensor's columns in header order, and the empty string
\* in every column of a nil component.
C16_FusedRowShape ==
  (wpc = "write" /\ wstage > 1) =>
    LET row == LastFusedRow.fields
    IN /\ ~LastFusedRow.hdr
       /\ row = FusedCSVRow(Received)
       /\ Len(row) = 22
       /\ Len(row) = Len(FusedCSVHeader)
       /\ row[1] = itoa64(Received.ts)
       /\ \A s \in Sensors : \A c \in Reserved(s) :
            IF Received.comp[s] = Nil
              THEN row[c] = ""
              ELSE row[c] = FieldOf(FusedCSVHeader[c], Received)

\* C16 witness: the row of a record with three nil components and two
\* samples, not adjacent in the header, has been written.
C16_Witness ==
  /\ wpc = "write"
  /\ wstage > 1
  /\ wrec.comp["camera"] = Nil
  /\ wrec.comp["lidar"] # Nil
  /\ wrec.comp["gps"] = Nil
  /\ wrec.comp["imu"] = Nil
  /\ wrec.comp["radar"] # Nil
  /\ LastFusedRow.fields[6] = "1"

\* The column lists of section 6 of the specification.
Authoritative(w) ==
  CASE w = "camera" ->
         <<"timestamp_ns", "frame_id", "width", "height", "format", "file_path", "size_bytes">>
    [] w = "lidar" ->
         <<"timestamp_ns", "packet_id", "num_points", "model", "rotation_deg",
           "cloud_file_path", "size_bytes">>
    [] w = "gps" ->
         <<"timestamp_ns", "latitude", "longitude", "altitude", "speed", "heading", "hdop",
           "fix_quality", "num_sats">>
    [] w = "imu" ->
         <<"timestamp_ns", "accel_x", "accel_y", "accel_z", "gyro_x", "gyro_y", "gyro_z",
           "mag_x", "mag_y", "mag_z", "temperature">>
    [] w = "radar" ->
         <<"timestamp_ns", "target_id", "range", "azimuth", "elevation", "velocity", "rcs">>
    [] w = "fused" ->
         <<"timestamp_ns", "cam_frame_id", "cam_file_path", "cam_width", "cam_height",
           "lidar_packet_id", "lidar_num_points", "lidar_cloud_path", "gps_lat", "gps_lon",
           "gps_alt", "gps_speed", "gps_heading", "imu_ax", "imu_ay", "imu_az", "imu_gx",
           "imu_gy", "imu_gz", "radar_range", "radar_azimuth", "radar_velocity">>

\* C17: for each of the six record types the header given to its CSV is the
\* column list of the specification and of SchemaColumns; with write_header
\* true it is the first line of the file (and no other line), and every data
\* row has as many fields as the header.
C17_HeadersMatchSchema ==
  \A w \in Writers :
    /\ CSVHeader(w) = Authoritative(w)
    /\ CSVHeader(w) = SchemaColumns(w)
    /\ writers[w].state # "nil" =>
         /\ writeHeader =>
              /\ Len(Lines(w)) >= 1
              /\ Lines(w)[1].hdr
              /\ Lines(w)[1].fields = SchemaColumns(w)
         /\ \A i \in 1..Len(Lines(w)) :
              /\ Lines(w)[i].hdr => (i = 1 /\ writeHeader)
              /\ ~Lines(w)[i].hdr => Len(Lines(w)[i].fields) = Len(SchemaColumns(w))

\* C17 witness: each of the six files holds its header, flushed to disk, and
\* a data row.
C17_Witness ==
  \A w \in Writers :
    /\ Len(writers[w].file) >= 1
    /\ writers[w].file[1].hdr
    /\ Len(DataRows(Lines(w))) >= 1

\* The producers whose records carry a sequence number.
Numbered == {"camera", "lidar", "radar"}

\* The ids of a sequence of records are strictly increasing.
IdsIncrease(q) == \A i, j \in 1..Len(q) : i < j => q[i].id < q[j].id

\* C18: for the camera, lidar and radar producers the first record generated
\* has sequence number 0 (each record's number is the count of records
\* generated before it), and the numbers of the records that reach the queue
\* are strictly increasing in queue order.
C18_SequenceNumbers ==
  \A s \in Numbered :
    /\ ppc[s] = "send" => frame[s].id = seq[s] - 1
    /\ (sent[s] # <<>> /\ dropped[s] = 0) => sent[s][1].id = 0
    /\ IdsIncrease(sent[s])
    /\ IdsIncrease(queue[s])

\* C18 witness: records 0 and 2 reached the queue, record 1 was dropped.
C18_Witness ==
  \E s \in Numbered :
    /\ Len(sent[s]) = 2
    /\ sent[s][1].id = 0
    /\ sent[s][2].id = 2
    /\ dropped[s] = 1

\* The record a drain has received and not yet stored, as a sequence.
InDrain(s) == IF dval[s] = Nil THEN <<>> ELSE <<dval[s]>>

\* C19: within one sensor stream the drain stores records in the cell in
\* the order in which the producer enqueued them: the records stored, the
\* one the drain holds and those still queued are, in this order, the
\* records enqueued.
C19_DrainKeepsOrder ==
  \A s \in Sensors :
    /\ IsPrefix(stored[s], sent[s])
    /\ stored[s] \o InDrain(s) \o queue[s] = sent[s]

\* C19 witness: two records have been stored while two more wait in the queue.
C19_Witness ==
  \E s \in Sensors :
    /\ Len(stored[s]) >= 2
    /\ Len(queue[s]) = 2

\* The row writeRecord has just handed to the camera writer.
LastCameraRow == Lines("camera")[Len(Lines("camera"))]

\* writeRecord is past its camera step for a record with a camera component.
CameraRowWritten == wpc = "write" /\ wstage > 2 /\ wrec.comp["camera"] # Nil

\* C20: when frame saving is enabled, the camera component has raw bytes and
\* the camera writer exists, the file_path column of the camera.csv row is
\* <frames.save_path>/<camera timestamp>.jpg and a frame-write task for
\* frames_dir/<camera timestamp>.jpg has been launched; otherwise file_path
\* is empty and no frame-write task is launched.
C20_FramePath ==
  LET cam == Received.comp["camera"]
      fname == itoa64(cam.ts) \o ".jpg"
      saving == /\ saveFrames
                /\ cam # Nil
                /\ cam.jpeg
                /\ writers["camera"].state # "nil"
  IN /\ CameraCSVHeader[6] = "file_path"
     /\ (CameraRowWritten /\ saving) =>
          /\ LastCameraRow.fields[6] = savePath \o "/" \o fname
          /\ frameWrites = {SessionDir \o "/" \o savePath \o "/" \o fname}
     /\ (CameraRowWritten /\ ~saving) => LastCameraRow.fields[6] = ""
     /\ ~saving => frameWrites = {}
     /\ frameWrites # {} => Len(DataRows(Lines("camera"))) = 1

\* C20 witness: a frame with raw bytes has been saved and its camera.csv row
\* written.
C20_Witness ==
  /\ CameraRowWritten
  /\ saveFrames
  /\ wrec.comp["camera"].jpeg
  /\ LastCameraRow.fields[6] = "frames/1.jpg"
  /\ frameWrites = {"session/frames/1.jpg"}

\* The data row of fused.csv for the record the writer is processing.
FusedRowOfRecord == DataRows(Lines("fused"))[taken]

\* C21: for a FusedRecord whose camera frame is saved, the cam_file_path
\* column of its fused.csv row holds <frames.save_path>/<camera timestamp>.jpg,
\* the value of the file_path column of the matching camera.csv row.
C21_FusedRowHasFramePath ==
  (CameraRowWritten /\ frameWrites # {}) =>
    /\ FusedCSVHeader[3] = "cam_file_path"
    /\ FusedRowOfRecord.fields[3] =
         savePath \o "/" \o itoa64(Received.comp["camera"].ts) \o ".jpg"
    /\ FusedRowOfRecord.fields[3] = LastCameraRow.fields[6]

\* C21 witness: a frame has been saved; its camera.csv row carries the path
\* and the fused.csv row of the same record, written before the path was
\* set, carries the empty string.
C21_Witness ==
  /\ CameraRowWritten
  /\ frameWrites = {"session/frames/1.jpg"}
  /\ LastCameraRow.fields[6] = "frames/1.jpg"
  /\ FusedRowOfRecord.fields[1] = itoa64(Received.ts)
  /\ FusedRowOfRecord.fields[3] = ""

\* The data rows handed to the fused writer so far.
FusedRows == DataRows(Lines("fused"))

\* C22: every merge tick assembles exactly one FusedRecord from the cells,
\* whatever they hold, and offers it to fused_out (enqueued unless fused_out
\* is full); no other step assembles one. A record whose five components
\* are nil is emitted like any other, and every record the writer has taken
\* has its row in fused.csv.
C22_OneRecordPerTick ==
  /\ [][/\ (mpc = "tick" /\ mpc' = "clear") =>
             /\ Len(assembled') = Len(assembled) + 1
             /\ rec'.comp = latest
             /\ assembled'[Len(assembled')].comp = latest
        /\ ~(mpc = "tick" /\ mpc' = "clear") => assembled' = assembled
        /\ (mpc = "send" /\ mpc' = "tick") =>
             /\ rec # NoRec
             /\ IF Len(fusedOut) < FusedCap
                  THEN fusedOut' = Append(fusedOut, rec) /\ emitted' = Append(emitted, rec)
                  ELSE fusedOut' = fusedOut /\ emitted' = emitted]_vars
  /\ [](/\ Len(FusedRows) = IF wpc = "write" /\ wstage = 1 THEN taken - 1 ELSE taken
        /\ \A i \in 1..Len(FusedRows) :
             /\ FusedRows[i].ts = emitted[i].ts
             /\ FusedRows[i].fields = FusedCSVRow(emitted[i]))

\* C22 witness: a FusedRecord with five nil components was emitted and its
\* row, the timestamp and 21 empty fields, is in fused.csv, followed by the
\* row of a record that carries a sample.
C22_Witness ==
  \E i \in 1..Len(FusedRows) :
    /\ emitted[i].comp = NoCells
    /\ FusedRows[i].fields[1] = itoa64(emitted[i].ts)
    /\ \A c \in 2..22 : FusedRows[i].fields[c] = ""
    /\ i < Len(FusedRows)
    /\ emitted[i + 1].comp # NoCells

\* ------------------------------------------- one sensor, a slow recorder
\* Camera only, with the recorder's writer free to fall behind the merge
\* task for as long as the run lasts.
InitDrop ==
  /\ enabled = {"camera"}
  /\ channelBuffer \in 1..MaxChanBuf
  /\ writeHeader = TRUE
  /\ timeLimit = MaxTimeDrop
  /\ Started

SpecDrop == InitDrop /\ [][Next]_vars

\* The assembled FusedRecords that were discarded on a full fused_out: not
\* enqueued, and no longer held by the merge task.
DroppedRecs ==
  {i \in 1..Len(assembled) :
     /\ assembled[i].ts # rec.ts
     /\ \A j \in 1..Len(emitted) : emitted[j].ts # assembled[i].ts}

\* C23: with fused_out full the merge task does not wait: its send step is
\* ready, leaves fused_out as it is and returns to the ticker; the five cells
\* are cleared whether or not fused_out has room; and a sample carried by a
\* discarded record is in no other FusedRecord, in no cell or queue, and in
\* no row of fused.csv or of its sensor's CSV.
C23_DropOnFull ==
  /\ [](Alive /\ mpc = "send" => ENABLED MergeSend)
  /\ [][/\ (mpc = "clear" /\ mpc' = "send") => latest' = NoCells
        /\ (mpc = "send" /\ Len(fusedOut) = FusedCap /\ mpc' # mpc) =>
             /\ mpc' = "tick"
             /\ rec' = NoRec
             /\ fusedOut' = fusedOut
             /\ emitted' = emitted
             /\ \A s \in Sensors : rec.comp[s] # Nil => latest'[s] # rec.comp[s]]_vars
  /\ [](\A i \in DroppedRecs :
          /\ \A r \in 1..Len(FusedRows) : FusedRows[r].ts # assembled[i].ts
          /\ \A s \in Sensors :
               Comp(i, s) # Nil =>
                 /\ \A j \in 1..Len(assembled) : j # i => Comp(j, s) # Comp(i, s)
                 /\ \A j \in 1..Len(emitted) : emitted[j].comp[s] # Comp(i, s)
                 /\ latest[s] # Comp(i, s)
                 /\ dval[s] # Comp(i, s)
                 /\ \A q \in 1..Len(queue[s]) : queue[s][q] # Comp(i, s)
                 /\ \A r \in 1..Len(CsvRows(s)) : CsvRows(s)[r].ts # Comp(i, s).ts)

\* C23 witness: a record carrying a sample was discarded on a full
\* fused_out; later records, one of them with a newer sample of the same
\* sensor, were assembled, enqueued and written.
C23_Witness ==
  \E i \in DroppedRecs : \E s \in Sensors : \E j \in 1..Len(emitted) :
    /\ Comp(i, s) # Nil
    /\ emitted[j].ts > assembled[i].ts
    /\ emitted[j].comp[s] # Nil
    /\ Len(CsvRows(s)) >= 1
    /\ CsvRows(s)[Len(CsvRows(s))].ts = emitted[j].comp[s].ts

\* ------------------------------------------------- any channel_buffer
\* One sensor enabled, channel_buffer negative, zero or positive.
InitCap ==
  /\ enabled \in {e \in SUBSET Sensors : Cardinality(e) = MaxEnabledStop}
  /\ channelBuffer \in -1..MaxChanBuf
  /\ writeHeader = TRUE
  /\ timeLimit = MaxTime
  /\ Started

SpecCap == InitCap /\ [][Next]_vars

\* The capacity the specification gives a producer's queue when the
\* configured channel_buffer is not positive.
TypeDefault(s) ==
  CASE s = "camera" -> 120
    [] s = "lidar" -> 256
    [] s = "gps" -> 64
    [] s = "imu" -> 512
    [] s = "radar" -> 128

\* C24: the capacity of each producer's queue is channel_buffer when that is
\* greater than 0 and otherwise the default of the sensor type; a queue
\* never holds more records than its capacity, and fused_out never more
\* than its own.
C24_QueueCapacities ==
  /\ \A s \in Sensors :
       /\ ChanCap(s) = IF channelBuffer > 0 THEN channelBuffer ELSE TypeDefault(s)
       /\ Len(queue[s]) <= ChanCap(s)
       /\ ~chanOpen[s] => queue[s] = <<>>
  /\ Len(fusedOut) <= FusedCap

\* C24 witness: with channel_buffer not positive a queue holds two records
\* and none was discarded.
C24_Witness ==
  \E s \in Sensors :
    /\ channelBuffer <= 0
    /\ Len(queue[s]) = 2
    /\ dropped[s] = 0

\* ------------------------------------------------------------ the tickers
\* What making a ticker leaves alone.
tickerFrame ==
  <<enabled, channelBuffer, writeHeader, simulate, saveFrames, savePath, bootVars, alignMs,
    flushIntervalMs, rate, prodPeriod, csvVars, framesDone, lidarVars, logVars, cancelled, chanOpen, now, timeLimit, prodVars, drainVars, latest, mu,
    rec, fusedOut, fusedClosed, storedSince, assembled, emitted, writers, rowsWritten, wpc,
    wstage, wrec, taken, frameWrites, fidx, ffinal, stopFlushed>>

\* merge: time.NewTicker(time.Duration(fc.alignIntervalMs) * time.Millisecond),
\* which panics (the process dies) when the period is not positive.
MergeNewTicker ==
  /\ Alive
  /\ mpc = "start"
  /\ LET d == Duration(AlignIntervalMs(alignMs))
     IN IF d <= 0
          THEN /\ pcMain' = "fatal"
               /\ UNCHANGED <<mpc, mergePeriod>>
          ELSE /\ mergePeriod' = d
               /\ mpc' = "tick"
               /\ UNCHANGED pcMain
  /\ UNCHANGED <<tickerFrame, fpc, flushPeriod>>

\* Flusher goroutine: flushMs and time.NewTicker(time.Duration(flushMs) *
\* time.Millisecond).
FlusherNewTicker ==
  /\ Alive
  /\ fpc = "start"
  /\ LET d == Duration(FlushMs(flushIntervalMs))
     IN IF d <= 0
          THEN /\ pcMain' = "fatal"
               /\ UNCHANGED <<fpc, flushPeriod>>
          ELSE /\ flushPeriod' = d
               /\ fpc' = "wait"
               /\ UNCHANGED pcMain
  /\ UNCHANGED <<tickerFrame, mpc, mergePeriod>>

\* The merge and the flusher goroutines are launched and have not yet made
\* their tickers; the two intervals are negative, zero or positive.
InitIntervals ==
  /\ enabled = {"camera"}
  /\ channelBuffer \in 1..MaxChanBuf
  /\ writeHeader = TRUE
  /\ timeLimit = MaxTime
  /\ Built
  /\ alignMs \in -2..MaxIntervalMs
  /\ flushIntervalMs \in -2..MaxIntervalMs
  /\ mpc = "start"
  /\ mergePeriod = 0
  /\ fpc = "start"
  /\ flushPeriod = 0

NextIntervals ==
  \/ MergeNewTicker
  \/ FlusherNewTicker

SpecIntervals == InitIntervals /\ [][NextIntervals]_vars

\* C25: the alignment interval is the given align_interval_ms when that is
\* at least 1 and 33 otherwise; the flush interval is the configured
\* flush_interval_ms when positive and 100 otherwise; the period of each
\* ticker is that many milliseconds, at least 1 ms, and making the ticker
\* never fails.
C25_TickerPeriods ==
  /\ AlignIntervalMs(alignMs) = IF alignMs >= 1 THEN alignMs ELSE 33
  /\ FlushMs(flushIntervalMs) = IF flushIntervalMs > 0 THEN flushIntervalMs ELSE 100
  /\ mpc # "start" =>
       /\ mergePeriod = (IF alignMs >= 1 THEN alignMs ELSE 33) * Millisecond
       /\ mergePeriod >= Millisecond
  /\ fpc # "start" =>
       /\ flushPeriod = (IF flushIntervalMs > 0 THEN flushIntervalMs ELSE 100) * Millisecond
       /\ flushPeriod >= Millisecond
  /\ pcMain # "fatal"

\* C25 witness: with align_interval_ms 0 and flush_interval_ms negative the
\* tickers have the default periods of 33 ms and 100 ms.
C25_Witness ==
  /\ alignMs = 0
  /\ flushIntervalMs < 0
  /\ mpc = "tick"
  /\ fpc = "wait"
  /\ mergePeriod = 33000000
  /\ flushPeriod = 100000000

\* The assembled FusedRecords that carry sample x of sensor s.
RecordsWith(s, x) == {i \in 1..Len(assembled) : Comp(i, s) = x}

\* C26: the merge task reads and clears the five cells in one critical
\* section: while it is between the read and the clear no drain can store,
\* the cells hold exactly what was read, and the clear discards nothing
\* else. Hence every sample a drain stored is in the cell, or in exactly one
\* assembled FusedRecord, or was overwritten by a later sample of its
\* sensor; and outside the critical section no cell holds a sample that an
\* assembled FusedRecord carries.
C26_ReadAndClearAtomic ==
  /\ [](mpc = "clear" =>
          /\ mu = "merge"
          /\ latest = rec.comp
          /\ \A s \in Sensors : ~ENABLED DrainStore(s))
  /\ [][(mpc = "clear" /\ mpc' = "send") => (latest = rec.comp /\ latest' = NoCells)]_vars
  /\ [](\A s \in Sensors : \A k \in 1..Len(stored[s]) :
          LET x == stored[s][k]
          IN /\ Cardinality(RecordsWith(s, x)) <= 1
             /\ \/ Cardinality(RecordsWith(s, x)) = 1
                \/ latest[s] = x
                \/ k < Len(stored[s])
             /\ (mu = "free" /\ latest[s] = x) => RecordsWith(s, x) = {})

\* C26 witness: the merge task is between its read and its clear with a
\* sample in the record, while the drain of the same sensor holds the next
\* sample and waits for the mutex; an earlier sample was overwritten.
C26_Witness ==
  \E s \in Sensors :
    /\ mpc = "clear"
    /\ dpc[s] = "store"
    /\ rec.comp[s] # Nil
    /\ Len(stored[s]) = 2
    /\ RecordsWith(s, stored[s][1]) = {}
    /\ RecordsWith(s, stored[s][2]) # {}

\* C27: once Stop has returned, every FusedRecord the merge task enqueued on
\* fused_out has been taken by the writer and is a row of fused.csv on disk.
C27_NoInFlightLoss ==
  Stopped =>
    /\ fusedOut = <<>>
    /\ taken = Len(emitted)
    /\ Len(DataRows(writers["fused"].file)) = Len(emitted)

\* C27 witness: Stop has returned and closed the files; the merge task had
\* closed fused_out; one emitted record is a row of fused.csv and another is
\* still in fused_out, never taken.
C27_Witness ==
  /\ pcMain = "stopped"
  /\ fusedClosed
  /\ wpc = "done"
  /\ Len(emitted) = 2
  /\ Len(fusedOut) = 1
  /\ writers["fused"].state = "closed"
  /\ Len(DataRows(writers["fused"].file)) = 1

\* C28: NewRecordingController either returns a controller whose fused
\* writer and whose writer of every enabled sensor are open (and no other),
\* or returns an error and leaves no CSV writer open.
C28_BringUpAtomic ==
  /\ pcMain = "running" =>
       \A w \in Writers :
         IF w = "fused" \/ w \in enabled
           THEN writers[w].state = "open"
           ELSE writers[w].state = "nil"
  /\ pcMain = "fatal" => \A w \in Writers : writers[w].state # "open"

\* C28 witness: opening the CSV of the second enabled sensor failed; the
\* error was returned with fused.csv and the first sensor's CSV left open.
C28_Witness ==
  /\ pcMain = "fatal"
  /\ err = "create"
  /\ Cardinality(enabled) = 2
  /\ Cardinality({w \in Writers : writers[w].state = "open"}) = 2
  /\ disk.files["fused"] = "new"

\* ------------------------------------------- the camera alone, to shutdown
InitFan ==
  /\ enabled = {"camera"}
  /\ channelBuffer \in 1..MaxChanBuf
  /\ writeHeader = TRUE
  /\ timeLimit = MaxTimeFan
  /\ Started

SpecFan == InitFan /\ [][NextStop]_vars

\* The FusedRecords for which writeRecord is past the step of sensor s.
PastStep(s) == IF wpc = "write" /\ wstage <= Index(s) THEN taken - 1 ELSE taken

\* Those of them whose component for sensor s is not nil.
WithSample(s) == {i \in 1..PastStep(s) : emitted[i].comp[s] # Nil}

\* C29: for every FusedRecord the writer processes and every sensor, one row
\* goes to the sensor's CSV when the component is not nil and the writer
\* exists, and none otherwise: the data rows of <sensor>.csv are as many as
\* the processed records with that component, never more than the rows of
\* fused.csv, and after Stop they are all in the file.
C29_FanOut ==
  \A s \in Sensors :
    /\ writers[s].state = "nil" => (WithSample(s) = {} /\ Rows(writers[s]) = 0)
    /\ Len(CsvRows(s)) = Cardinality(WithSample(s))
    /\ Rows(writers[s]) = Cardinality(WithSample(s))
    /\ Len(CsvRows(s)) <= Len(CsvRows("fused"))
    /\ Stopped =>
         /\ Len(DataRows(writers[s].file)) = Cardinality(WithSample(s))
         /\ Len(DataRows(writers[s].file)) <= Len(DataRows(writers["fused"].file))

\* C29 witness: Stop has returned; the writer processed two FusedRecords,
\* one with a camera frame and one without: fused.csv has two data rows and
\* camera.csv one.
C29_Witness ==
  /\ pcMain = "stopped"
  /\ taken = 2
  /\ Len(DataRows(writers["fused"].file)) = 2
  /\ Len(DataRows(writers["camera"].file)) = 1
  /\ emitted[1].comp["camera"] = Nil

\* C30: a producer's queue is closed once, by the producer, in the step in
\* which the producer exits on cancellation; fused_out is closed once, by
\* the merge task, in the step in which it exits on cancellation; a task
\* that has closed its queue takes no further step, so no send is attempted
\* on a closed queue and a closed queue receives nothing.
C30_ClosedOnceBySender ==
  /\ [][/\ \A s \in Sensors :
             /\ closed'[s] # closed[s] =>
                  /\ ~closed[s]
                  /\ cancelled
                  /\ ppc[s] = "tick"
                  /\ ppc'[s] = "done"
             /\ closed[s] => (closed'[s] /\ Len(queue'[s]) <= Len(queue[s]))
        /\ fusedClosed' # fusedClosed =>
             /\ ~fusedClosed
             /\ cancelled
             /\ mpc = "tick"
             /\ mpc' = "done"
        /\ fusedClosed => (fusedClosed' /\ Len(fusedOut') <= Len(fusedOut))]_vars
  /\ [](\A s \in Sensors :
          /\ closed[s] <=> ppc[s] = "done"
          /\ closed[s] => chanOpen[s]
          /\ ppc[s] = "done" =>
               /\ ~ENABLED ProducerTick(s)
               /\ ~ENABLED ProducerSend(s)
               /\ ~ENABLED ProducerExit(s))
  /\ [](/\ fusedClosed <=> mpc = "done"
        /\ mpc = "done" => (~ENABLED MergeTick /\ ~ENABLED MergeSend /\ ~ENABLED MergeExit))

\* C30 witness: after cancellation a producer has closed its queue with a
\* record still in it, its drain has returned without closing anything, and
\* the merge task has closed fused_out with a record still in it.
C30_Witness ==
  \E s \in Sensors :
    /\ closed[s]
    /\ Len(queue[s]) = 1
    /\ dpc[s] = "done"
    /\ fusedClosed
    /\ Len(fusedOut) = 1
    /\ Alive

\* C31: a writer's file is closed only by Stop, in a step taken after both
\* the writer task and the flusher task have exited; once it is closed the
\* writer is never touched again: no WriteRow and no Flush by those tasks
\* happens on it.
C31_NoUseAfterClose ==
  /\ [](\A w \in Writers :
          writers[w].state = "closed" =>
            /\ wpc = "done"
            /\ fpc = "done"
            /\ Stopped
            /\ ~ENABLED WriterWrite
            /\ ~ENABLED FlusherFlush)
  /\ [][\A w \in Writers :
          /\ (writers[w].state # "closed" /\ writers'[w].state = "closed") =>
               /\ pcMain = "shutdown"
               /\ pcMain' = "stopped"
               /\ wpc = "done"
               /\ fpc = "done"
          /\ writers[w].state = "closed" => writers'[w] = writers[w]]_vars

\* C31 witness: Stop has closed the files of a session in which the writer
\* wrote a fused row and a sensor row, some of them after the flusher's last
\* Flush, before both tasks exited.
C31_Witness ==
  /\ pcMain = "stopped"
  /\ writers["fused"].state = "closed"
  /\ Rows(writers["fused"]) = 1
  /\ stopFlushed >= 1
  /\ \E s \in Sensors : writers[s].state = "closed" /\ Rows(writers[s]) = 1

\* ------------------------------------------------------ the readers' rates
MaxRate == 2

\* What a reader's making its ticker leaves alone.
readerFrame ==
  <<enabled, channelBuffer, writeHeader, simulate, saveFrames, savePath, bootVars, alignMs,
    flushIntervalMs, mergePeriod, flushPeriod, rate, csvVars, framesDone, lidarVars, logVars, cancelled, chanOpen, now, timeLimit,
    frame, seq, produced, dropped, queue, sent, drainVars, fusionVars, recVars>>

\* <S>Reader.run up to its loop: defer close(r.Out), the interval computed
\* from the configured rate, time.NewTicker(interval). NewTicker panics on a
\* non-positive interval and the division panics on a zero rate; no
\* goroutine recovers, so the deferred close runs and the process dies.
ProducerNewTicker(s) ==
  /\ Alive
  /\ ppc[s] = "start"
  /\ \E q \in ReaderInterval(s, rate) :
       IF q.ok /\ q.d > 0
         THEN /\ prodPeriod' = [prodPeriod EXCEPT ![s] = q.d]
              /\ ppc' = [ppc EXCEPT ![s] = "tick"]
              /\ UNCHANGED <<closed, pcMain>>
         ELSE /\ closed' = [closed EXCEPT ![s] = TRUE]
              /\ ppc' = [ppc EXCEPT ![s] = "done"]
              /\ pcMain' = "fatal"
              /\ UNCHANGED prodPeriod
  /\ UNCHANGED readerFrame

\* One enabled sensor whose reader has been launched and has not yet made
\* its ticker, for every configured rate from -1 to MaxRate.
InitRates ==
  /\ enabled \in {e \in SUBSET Sensors : Cardinality(e) = 1}
  /\ channelBuffer = 1
  /\ writeHeader = TRUE
  /\ timeLimit = MaxTimeStop
  /\ Wired
  /\ Logged
  /\ saveFrames = FALSE
  /\ pointsPerPkt = DefaultPoints
  /\ rate \in -1..MaxRate
  /\ ppc = [s \in Sensors |-> IF chanOpen[s] THEN "start" ELSE "off"]
  /\ prodPeriod = [s \in Sensors |-> 0]
  /\ alignMs = 33
  /\ flushIntervalMs = 100
  /\ mpc = "tick"
  /\ mergePeriod = Duration(AlignIntervalMs(alignMs))
  /\ fpc = "wait"
  /\ flushPeriod = Duration(FlushMs(flushIntervalMs))

NextRates ==
  \/ \E s \in Sensors : ProducerNewTicker(s)
  \/ NextStop

SpecRates == InitRates /\ [][NextRates]_vars

\* C32 (as the specification states it): for every configured rate, 0 and
\* negative values included, a started producer ends only because of
\* cancellation and never by a run-time failure: the process is never killed
\* by a panic and a producer that has ended was cancelled.
C32_ProducerNeverFails ==
  /\ pcMain # "fatal"
  /\ \A s \in Sensors : ppc[s] = "done" => cancelled

\* C32 witness: with a rate of 0 the camera reader has panicked on its
\* division before any cancellation, and the process is dead.
C32_Witness ==
  /\ rate = 0
  /\ "camera" \in enabled
  /\ ppc["camera"] = "done"
  /\ closed["camera"]
  /\ ~cancelled
  /\ pcMain = "fatal"

\* ------------------------------------------- a CSVWriter and its mutex
MaxCalls == 2

\* What a step on the CSVWriter leaves alone: the whole pipeline.
csvFrame ==
  <<enabled, channelBuffer, writeHeader, simulate, saveFrames, savePath, bootVars, tickVars,
    framesDone, lidarVars, logVars, mainVars, now, timeLimit, prodVars, drainVars, fusionVars, recVars>>

\* A task calls WriteRow, Flush, Close or Rows on the writer.
CsvCall(t, op) ==
  /\ call[t].pc = "idle"
  /\ call[t].n < MaxCalls
  /\ call' = [call EXCEPT ![t] = [op |-> op, pc |-> "lock", part |-> 1, fld |-> 0,
                                   ret |-> @.ret, n |-> @.n + 1]]
  /\ UNCHANGED <<csvw, completed, csvFrame>>

\* Mutant: the mutex admits a second holder.
CsvLockNoExclusion(t) ==
  /\ call[t].pc = "lock"
  /\ csvw' = [csvw EXCEPT !.mu = t]
  /\ call' = [call EXCEPT ![t].pc = "body"]
  /\ UNCHANGED <<completed, csvFrame>>

\* w.mu.Lock(): the caller waits until the mutex is free and takes it.
CsvLock(t) ==
  /\ call[t].pc = "lock"
  /\ csvw.mu = "free"
  /\ csvw' = [csvw EXCEPT !.mu = t]
  /\ call' = [call EXCEPT ![t].pc = "body"]
  /\ UNCHANGED <<completed, csvFrame>>

\* WriteRow, w.csv.Write(row): one more field of the row into the buffer.
WriteRowField(t) ==
  /\ call[t].op = "WriteRow"
  /\ call[t].pc = "body"
  /\ call[t].fld < RowLen
  /\ csvw' = [csvw EXCEPT !.buf = Append(@, Field(t, call[t].n, call[t].fld + 1))]
  /\ call' = [call EXCEPT ![t].fld = @ + 1]
  /\ UNCHANGED <<completed, csvFrame>>

\* WriteRow, w.rows++.
WriteRowCount(t) ==
  /\ call[t].op = "WriteRow"
  /\ call[t].pc = "body"
  /\ call[t].fld = RowLen
  /\ csvw' = [csvw EXCEPT !.rows = @ + 1]
  /\ call' = [call EXCEPT ![t].pc = "unlock"]
  /\ UNCHANGED <<completed, csvFrame>>

\* Flush (also the w.Flush() of Close), w.csv.Flush(); w.buf.Flush(): the
\* write to the file, made while the mutex is held. On a closed file the
\* write fails, the error is dropped and the buffer is kept.
FlushIO(t) ==
  /\ \/ call[t].op = "Flush"
     \/ call[t].op = "Close" /\ call[t].part = 1
  /\ call[t].pc = "body"
  /\ IF csvw.open
       THEN csvw' = [csvw EXCEPT !.file = @ \o csvw.buf, !.buf = <<>>]
       ELSE UNCHANGED csvw
  /\ call' = [call EXCEPT ![t].pc = "unlock"]
  /\ UNCHANGED <<completed, csvFrame>>

\* Close, w.file.Close(), in a critical section of its own after w.Flush().
CloseFile(t) ==
  /\ call[t].op = "Close"
  /\ call[t].part = 2
  /\ call[t].pc = "body"
  /\ csvw' = [csvw EXCEPT !.open = FALSE]
  /\ call' = [call EXCEPT ![t].pc = "unlock"]
  /\ UNCHANGED <<completed, csvFrame>>

\* Rows, return w.rows.
RowsRead(t) ==
  /\ call[t].op = "Rows"
  /\ call[t].pc = "body"
  /\ call' = [call EXCEPT ![t].ret = csvw.rows, ![t].pc = "unlock"]
  /\ UNCHANGED <<csvw, completed, csvFrame>>

\* w.mu.Unlock(); Close goes on to its second critical section, every other
\* call returns.
CsvUnlock(t) ==
  /\ call[t].pc = "unlock"
  /\ csvw' = [csvw EXCEPT !.mu = "free"]
  /\ IF call[t].op = "Close" /\ call[t].part = 1
       THEN call' = [call EXCEPT ![t].part = 2, ![t].pc = "lock"]
       ELSE call' = [call EXCEPT ![t].pc = "idle"]
  /\ completed' = IF call[t].op = "WriteRow" THEN completed + 1 ELSE completed
  /\ UNCHANGED csvFrame

\* A writer of the recorder, no sensor enabled: the pipeline stands still.
InitCsv ==
  /\ enabled = {}
  /\ channelBuffer = 1
  /\ writeHeader \in BOOLEAN
  /\ timeLimit = 0
  /\ Started

\* The recorder's use of one writer while it runs: the writer goroutine
\* calls WriteRow (writeRecord), the flusher goroutine calls Flush (flushAll).
NextHotPath ==
  \/ CsvCall("writer", "WriteRow")
  \/ CsvCall("flusher", "Flush")
  \/ \E t \in Callers : CsvLock(t)
  \/ \E t \in Callers : WriteRowField(t)
  \/ \E t \in Callers : WriteRowCount(t)
  \/ \E t \in Callers : FlushIO(t)
  \/ \E t \in Callers : CsvUnlock(t)

SpecHotPath == InitCsv /\ [][NextHotPath]_vars

\* C33 (as the specification states it): the periodic flush never blocks
\* the hot path: the writer task's WriteRow never waits for the mutex of a
\* writer while the flusher task has a Flush of that writer in progress.
C33_FlushNeverBlocksWriteRow ==
  ~ /\ call["writer"].op = "WriteRow"
    /\ call["writer"].pc = "lock"
    /\ call["flusher"].op = "Flush"
    /\ csvw.mu = "flusher"

\* C33 witness: the flusher holds the mutex with its write to the file still
\* to be made, a row is in the buffer, and the writer task's next WriteRow
\* waits at Lock, where it cannot proceed.
C33_Witness ==
  /\ call["writer"].op = "WriteRow"
  /\ call["writer"].pc = "lock"
  /\ call["flusher"].op = "Flush"
  /\ call["flusher"].pc = "body"
  /\ csvw.mu = "flusher"
  /\ completed = 1
  /\ ~ENABLED CsvLock("writer")

\* C34: a drain task's store for one sensor changes only that sensor's cell,
\* to the sample it received: the other four cells, fused_out and the
\* counters (sequence numbers, produced, dropped, rows written) are
\* unchanged by it; and a step that sets a cell to nil is the merge task's
\* clear, made while it holds the mutex.
C34_StoreChangesOneCell ==
  [][\A s \in Sensors :
       /\ (dpc[s] = "store" /\ dpc'[s] = "recv") =>
            /\ latest'[s] = dval[s]
            /\ latest'[s] # Nil
            /\ \A o \in Sensors \ {s} : latest'[o] = latest[o]
            /\ fusedOut' = fusedOut
            /\ UNCHANGED <<seq, produced, dropped, rowsWritten>>
       /\ (latest[s] # Nil /\ latest'[s] = Nil) =>
            /\ mpc = "clear"
            /\ mpc' = "send"
            /\ mu = "merge"]_vars

\* C34 witness: two cells are full, the later sample was stored while the
\* earlier one was in its cell and left it there, and fused_out holds a
\* record.
C34_Witness ==
  \E s \in Sensors : \E o \in Sensors \ {s} :
    /\ latest[s] # Nil
    /\ latest[o] # Nil
    /\ latest[s] = stored[s][Len(stored[s])]
    /\ latest[o] = stored[o][Len(stored[o])]
    /\ latest[o].ts < latest[s].ts
    /\ Len(fusedOut) = 1

\* ------------------------------------------------------- the frame writes
\* What the end of a frame write leaves alone.
frameFrame ==
  <<enabled, channelBuffer, writeHeader, simulate, saveFrames, savePath, bootVars, tickVars,
    csvVars, lidarVars, logVars, mainVars, now, timeLimit, prodVars, drainVars, fusionVars, recVars>>

\* writeRecord, go func(data, path): os.WriteFile has returned, and a failure
\* has been logged. The goroutine is in no WaitGroup; it runs for as long as
\* the process does.
FrameWriteDone(p) ==
  /\ Alive
  /\ p \in frameWrites \ framesDone
  /\ framesDone' = framesDone \cup {p}
  /\ UNCHANGED frameFrame

\* The camera alone, its frames saved, and the session taken to its end.
InitFrames ==
  /\ enabled = {"camera"}
  /\ channelBuffer = 1
  /\ writeHeader \in BOOLEAN
  /\ timeLimit = MaxTimeStop
  /\ Wired
  /\ Logged
  /\ saveFrames = TRUE
  /\ pointsPerPkt = DefaultPoints
  /\ ppc = SensorsStart(chanOpen)
  /\ rate = DefaultRate
  /\ prodPeriod = DefaultPeriods(chanOpen)
  /\ alignMs = 33
  /\ flushIntervalMs = 100
  /\ mpc = "tick"
  /\ mergePeriod = Duration(AlignIntervalMs(alignMs))
  /\ fpc = "wait"
  /\ flushPeriod = Duration(FlushMs(flushIntervalMs))

NextFrames ==
  \/ NextStop
  \/ \E p \in frameWrites : FrameWriteDone(p)

SpecFrames == InitFrames /\ [][NextFrames]_vars

\* The file_path values of the data rows of camera.csv, as paths of files.
CameraRowPaths ==
  LET rows == DataRows(Lines("camera"))
  IN {Join(SessionDir, rows[i].fields[6]) :
        i \in {k \in 1..Len(rows) : rows[k].fields[6] # ""}}

\* C35 (as the specification states it): when Stop has returned, every
\* frame-write task that was launched has finished, and every camera.csv row
\* with a file_path refers to a frame whose write has finished.
C35_FramesCompleteAtStop ==
  pcMain \in {"stopped", "finished"} =>
    /\ frameWrites \subseteq framesDone
    /\ CameraRowPaths \subseteq framesDone

\* C35 (amended): when Stop has returned, every camera.csv row with a
\* file_path refers to a frame whose write task was launched, and only
\* launched writes have finished; a write that has not finished when main
\* returns never does.
C35_FramesLaunchedAtStop ==
  /\ [](/\ framesDone \subseteq frameWrites
        /\ pcMain \in {"stopped", "finished"} => CameraRowPaths = frameWrites)
  /\ [][pcMain = "finished" => framesDone' = framesDone]_vars

\* C35 witness: main has returned, camera.csv has a row that names a frame
\* file on disk, and that frame's write never finished.
C35_Witness ==
  /\ pcMain = "finished"
  /\ writers["camera"].state = "closed"
  /\ CameraRowPaths = {"session/frames/1.jpg"}
  /\ Len(DataRows(writers["camera"].file)) = 1
  /\ frameWrites = {"session/frames/1.jpg"}
  /\ framesDone = {}

\* ------------------------------------------ a CSVWriter under any callers
CsvOps == {"WriteRow", "Flush", "Close", "Rows"}

\* Two tasks that call the four methods of one writer in any order.
NextCsv ==
  \/ \E t \in Callers : \E op \in CsvOps : CsvCall(t, op)
  \/ \E t \in Callers : CsvLock(t)
  \/ \E t \in Callers : WriteRowField(t)
  \/ \E t \in Callers : WriteRowCount(t)
  \/ \E t \in Callers : FlushIO(t)
  \/ \E t \in Callers : CloseFile(t)
  \/ \E t \in Callers : RowsRead(t)
  \/ \E t \in Callers : CsvUnlock(t)

SpecCsv == InitCsv /\ [][NextCsv]_vars

\* The task is between w.mu.Lock() and w.mu.Unlock().
Holding(t) == call[t].pc \in {"body", "unlock"}

\* Everything written to the writer, in order: the file, then the buffer.
Written == csvw.file \o csvw.buf

\* The data fields of Written (the header's fields are not data).
DataFields == {i \in 1..Len(Written) : Written[i].by # "header"}

MaxPointsPerPkt == 17

\* rand.Intn(32) is in 0..31; 16 bytes per point.
RandN == 32
PointBytes == 16

\* What the building of a lidar packet leaves alone.
packetFrame ==
  <<enabled, channelBuffer, writeHeader, simulate, saveFrames, savePath, bootVars, tickVars,
    csvVars, framesDone, pointsPerPkt, logVars, cancelled, chanOpen, timeLimit, produced, dropped,
    queue, sent, drainVars, fusionVars, recVars>>

\* LidarReader.run, case <-ticker.C, with readPacket in simulation:
\* nPts := points_per_packet + rand.Intn(32) - 16; make([]byte, nPts*16)
\* panics on a negative length, and then the deferred close(r.Out) runs and
\* the process dies; otherwise NumPoints is nPts and SizeBytes is len(cloud).
LidarReadPacket ==
  /\ Alive
  /\ simulate
  /\ ppc["lidar"] = "tick"
  /\ now < timeLimit
  /\ now' = NowNano
  /\ \E r \in 0..(RandN - 1) :
       LET nPts == pointsPerPkt + r - 16
           len == nPts * PointBytes
       IN IF len < 0
            THEN /\ pcMain' = "fatal"
                 /\ closed' = [closed EXCEPT !["lidar"] = TRUE]
                 /\ ppc' = [ppc EXCEPT !["lidar"] = "done"]
                 /\ UNCHANGED <<frame, seq, lidarPkt>>
            ELSE /\ lidarPkt' = [num_points |-> nPts, size_bytes |-> len, built |-> TRUE]
                 /\ frame' = [frame EXCEPT !["lidar"] =
                                [ts |-> NowNano, id |-> seq["lidar"], jpeg |-> FALSE,
                                 path |-> ""]]
                 /\ seq' = [seq EXCEPT !["lidar"] = @ + 1]
                 /\ ppc' = [ppc EXCEPT !["lidar"] = "send"]
                 /\ UNCHANGED <<pcMain, closed>>
  /\ UNCHANGED packetFrame

\* The lidar alone, simulated, for every points_per_packet from -1 to
\* MaxPointsPerPkt; the merge goroutine and the recorder stand still.
InitLidar ==
  /\ enabled = {"lidar"}
  /\ channelBuffer = 1
  /\ writeHeader = TRUE
  /\ timeLimit = MaxTimeStop
  /\ Wired
  /\ Logged
  /\ saveFrames = FALSE
  /\ pointsPerPkt \in -1..MaxPointsPerPkt
  /\ ppc = SensorsStart(chanOpen)
  /\ rate = DefaultRate
  /\ prodPeriod = DefaultPeriods(chanOpen)
  /\ alignMs = 33
  /\ flushIntervalMs = 100
  /\ mpc = "tick"
  /\ mergePeriod = Duration(AlignIntervalMs(alignMs))
  /\ fpc = "wait"
  /\ flushPeriod = Duration(FlushMs(flushIntervalMs))

NextLidar ==
  \/ LidarReadPacket
  \/ \E s \in Sensors : ProducerSend(s)
  \/ \E s \in Sensors : DrainRecv(s)
  \/ \E s \in Sensors : DrainStore(s)

SpecLidar == InitLidar /\ [][NextLidar]_vars

\* C37 (as the specification states it): for every simulated lidar packet
\* and every points_per_packet, values below 16 and 0 included, num_points
\* is non-negative, size_bytes is 16 * num_points and building the packet
\* never fails.
C37_PacketWellFormed ==
  /\ pcMain # "fatal"
  /\ lidarPkt.built =>
       /\ lidarPkt.num_points >= 0
       /\ lidarPkt.size_bytes = 16 * lidarPkt.num_points

\* C37 witness: with points_per_packet 0 a first packet was built, of 15
\* points, and the building of the second one has panicked.
C37_Witness ==
  /\ pointsPerPkt = 0
  /\ lidarPkt.built
  /\ lidarPkt.num_points = 15
  /\ lidarPkt.size_bytes = 240
  /\ pcMain = "fatal"
  /\ closed["lidar"]
  /\ ~cancelled

\* ------------------------------------------------------------- the logger
LogLevels == {"DEBUG", "INFO", "WARN", "ERROR", "FATAL"}
LogPaths == {"", "a.log", "b.log"}

\* What a call on the logger leaves alone: the whole pipeline.
logFrame ==
  <<enabled, channelBuffer, writeHeader, simulate, saveFrames, savePath, bootVars, tickVars,
    csvVars, framesDone, lidarVars, mainVars, now, timeLimit, prodVars, drainVars,
    fusionVars, recVars>>

\* The Logger the function passed to logOnce.Do makes: stdout, and the log
\* file when a path is given and os.OpenFile succeeds (ok).
NewLogger(minLevel, path, ok) ==
  [id |-> created + 1,
   level |-> minLevel,
   outputs |-> {"stdout"} \cup (IF path # "" /\ ok THEN {path} ELSE {}),
   closed |-> FALSE]

\* Mutant: InitLogger without the sync.Once; every call makes a Logger.
InitLoggerNoOnce(minLevel, path) ==
  /\ \E ok \in BOOLEAN :
       globalLogger' = NewLogger(minLevel, path, ok)
  /\ created' = created + 1
  /\ logOnce' = TRUE
  /\ logRet' = globalLogger'.id
  /\ logCall' = [op |-> "InitLogger", level |-> minLevel, path |-> path]
  /\ UNCHANGED logFrame

\* InitLogger: logOnce.Do(...) runs its function on the first call only;
\* return globalLogger.
InitLogger(minLevel, path) ==
  /\ IF ~logOnce
       THEN /\ \E ok \in BOOLEAN :
                 globalLogger' = NewLogger(minLevel, path, ok)
            /\ created' = created + 1
            /\ logOnce' = TRUE
       ELSE UNCHANGED <<globalLogger, created, logOnce>>
  /\ logRet' = globalLogger'.id
  /\ logCall' = [op |-> "InitLogger", level |-> minLevel, path |-> path]
  /\ UNCHANGED logFrame

\* L: globalLogger, or InitLogger(DEBUG, "") while it is nil.
L ==
  /\ IF globalLogger = NilLogger
       THEN /\ IF ~logOnce
                 THEN /\ globalLogger' = NewLogger("DEBUG", "", FALSE)
                      /\ created' = created + 1
                      /\ logOnce' = TRUE
                 ELSE UNCHANGED <<globalLogger, created, logOnce>>
       ELSE UNCHANGED <<globalLogger, created, logOnce>>
  /\ logRet' = globalLogger'.id
  /\ logCall' = [op |-> "L", level |-> "none", path |-> ""]
  /\ UNCHANGED logFrame

\* Logger.Close: the log file, if any, is closed.
LoggerClose ==
  /\ globalLogger # NilLogger
  /\ globalLogger' = [globalLogger EXCEPT !.closed = TRUE]
  /\ logCall' = [op |-> "Close", level |-> "none", path |-> ""]
  /\ UNCHANGED <<created, logOnce, logRet, logFrame>>

\* A process that has not called the logger yet; the pipeline stands still.
InitLog ==
  /\ enabled = {}
  /\ channelBuffer = 1
  /\ writeHeader = TRUE
  /\ timeLimit = 0
  /\ Wired
  /\ saveFrames = FALSE
  /\ pointsPerPkt = DefaultPoints
  /\ ppc = SensorsStart(chanOpen)
  /\ rate = DefaultRate
  /\ prodPeriod = DefaultPeriods(chanOpen)
  /\ alignMs = 33
  /\ flushIntervalMs = 100
  /\ mpc = "tick"
  /\ mergePeriod = Duration(AlignIntervalMs(alignMs))
  /\ fpc = "wait"
  /\ flushPeriod = Duration(FlushMs(flushIntervalMs))
  /\ globalLogger = NilLogger
  /\ logOnce = FALSE
  /\ created = 0
  /\ logCall = NoLogCall
  /\ logRet = 0

NextLog ==
  \/ \E lvl \in LogLevels : \E path \in LogPaths : InitLogger(lvl, path)
  \/ L
  \/ LoggerClose

SpecLog == InitLog /\ [][NextLog]_vars

\* C38: logger initialization is idempotent and first-wins. At most one
\* Logger is ever created; the first InitLogger call (or the first L, which
\* calls InitLogger(DEBUG, "")) creates it with that call's level and path;
\* every later InitLogger call, of any level and path, and every L call
\* returns that Logger and leaves its level and outputs as they were.
C38_FirstWins ==
  /\ [](/\ created <= 1
        /\ logOnce <=> globalLogger # NilLogger
        /\ logCall.op \in {"InitLogger", "L"} => (logRet = 1 /\ globalLogger.id = 1))
  /\ [][/\ (globalLogger # NilLogger /\ logCall'.op \in {"InitLogger", "L"}) =>
             /\ globalLogger' = globalLogger
             /\ logRet' = globalLogger.id
        /\ (globalLogger = NilLogger /\ logCall'.op = "InitLogger") =>
             /\ globalLogger'.level = logCall'.level
             /\ globalLogger'.outputs \in {{"stdout"}, {"stdout", logCall'.path}}
        /\ (globalLogger = NilLogger /\ logCall'.op = "L") =>
             /\ globalLogger'.level = "DEBUG"
             /\ globalLogger'.outputs = {"stdout"}]_vars

\* C38 witness: the logger was created at INFO with a log file, and a later
\* InitLogger(DEBUG, "b.log") has returned that same logger, unchanged.
C38_Witness ==
  /\ globalLogger = [id |-> 1, level |-> "INFO", outputs |-> {"stdout", "a.log"},
                     closed |-> FALSE]
  /\ logCall = [op |-> "InitLogger", level |-> "DEBUG", path |-> "b.log"]
  /\ logRet = 1
  /\ created = 1

====
